---- MODULE Spec2Model ----
(***************************************************************************)
(* A model of surf-cli's network-capture store (the network storage        *)
(* module): requests.jsonl, bodies/, .meta and .lock, with the operations  *)
(* storeBody, appendEntry, appendEntrySync, readEntries, readEntriesSync,  *)
(* cleanup and clear.                                                      *)
(*                                                                         *)
(* Abstractions.  A body is a natural number c standing for a buffer of    *)
(* BodySize(c) bytes; its name is Hash(c), a digest drawn from a small     *)
(* space, so that two different bodies can share a name as two buffers can *)
(* share a 16-digit prefix of their SHA-256.  requests.jsonl is a sequence *)
(* of chunks: the JSON text of an entry, a newline, white space, or a      *)
(* fragment of JSON text (what a torn write leaves).  Time is the value of *)
(* Date.now() in milliseconds.  An append of one line is one atomic step.  *)
(***************************************************************************)
EXTENDS Integers, Sequences, FiniteSets, TLC

VARIABLES
    now,        \* Date.now()
    requests,   \* requests.jsonl: [exists, content]
    bodies,     \* bodies/: file name -> body stored under it, or Absent
    meta,       \* .meta: lastCleanup, or Absent when there is no .meta
    ret,        \* the last completed call and what it returned
    cl,         \* the cleanup() call in progress (step by step), or idle
    lock,       \* .lock: [exists, owner, mtime]
    procs,      \* appending processes: where each is in its call
    auto,       \* automatic cleanup: the setImmediate callbacks waiting, the runs so far
    wf          \* the workflow being executed by executeDoSteps

vars == <<now, requests, bodies, meta, ret, cl, lock, procs, auto, wf>>

----------------------------------------------------------------------------
(* Bounds of the model *)

MaxClock == 1
TickMs == 2500
MaxEntries == 2
MaxContent == 1
DigestSpace == 2
MaxTtl == 1
LowCap == 7
HighCap == 100
NumProcs == 2
MaxCalls == 2
MaxLockClock == 3
MaxChunks == 5
AutoTickMs == 1800000
MaxAutoClock == 3
MaxPending == 2
ShortList == 3
FewTimes == 2

----------------------------------------------------------------------------
(* Values *)

Absent == -1

Contents == 0 .. MaxContent
Digests == 0 .. (DigestSpace - 1)
Exts == {"req", "res"}
BodyNames == Digests \X Exts
Times == {t * TickMs : t \in 0 .. MaxClock}

\* A name that depends on when the body is stored, not on its bytes alone
HashSalted(c) ==
    (c + (now \div TickMs)) % DigestSpace

\* crypto.createHash("sha256").update(buffer).digest("hex").slice(0, 16)
Hash(c) ==
    c % DigestSpace

\* buffer.length of the body c
BodySize(c) ==
    (c + 1) * (c + 1)

\* `${hash}.${ext}` with ext = isRequest ? "req" : "res"
BodyName(hash, isRequest) ==
    <<hash, IF isRequest THEN "req" ELSE "res">>

\* An entry as a JSON object; a hash field that is not there is Absent.
Entry(id, ts, req, res) ==
    [id |-> id, timestamp |-> ts, requestBodyHash |-> req, responseBodyHash |-> res]

NullEntry == Entry(Absent, Absent, Absent, Absent)

\* Chunks of requests.jsonl
Json(e) == [k |-> "json", e |-> e]
NL == [k |-> "nl", e |-> NullEntry]
WS == [k |-> "ws", e |-> NullEntry]
Junk == [k |-> "junk", e |-> NullEntry]

\* JSON.stringify(fullEntry) + "\n"
Line(e) ==
    <<Json(e), NL>>

\* Bytes of a chunk: the text of an entry grows with the fields it holds.
ChunkSize(ch) ==
    CASE ch.k = "json" ->
            2 + (IF ch.e.requestBodyHash # Absent THEN 1 ELSE 0)
              + (IF ch.e.responseBodyHash # Absent THEN 1 ELSE 0)
      [] OTHER -> 1

RECURSIVE SumSizes(_)
SumSizes(chunks) ==
    IF chunks = <<>> THEN 0
    ELSE ChunkSize(Head(chunks)) + SumSizes(Tail(chunks))

\* fs.statSync(requestsPath).size
FileSize(f) ==
    IF f.exists THEN SumSizes(f.content) ELSE 0

NoFile == [exists |-> FALSE, content |-> <<>>]
File(content) == [exists |-> TRUE, content |-> content]

----------------------------------------------------------------------------
(* Queries: matchesFilters, readEntriesSync, readEntries *)

\* filters: since (Absent: not given), hasBody ("any": not given), last
Filters(since, hasBody, last) ==
    [since |-> since, hasBody |-> hasBody, last |-> last]

NoFilters == Filters(Absent, "any", Absent)

\* if (since && entry.timestamp < since) return false;
\* if (hasBody !== undefined) { if (hasBody !== !!entry.responseBodyHash) return false; }
matchesFilters(entry, filters) ==
    /\ ~(filters.since # Absent /\ filters.since # 0 /\ entry.timestamp < filters.since)
    /\ \/ filters.hasBody = "any"
       \/ (filters.hasBody = "yes") = (entry.responseBodyHash # Absent)

\* !line.trim(): the line is empty or white space only
IsBlank(line) ==
    \A i \in 1 .. Len(line) : line[i].k = "ws"

NotWs(ch) == ch.k # "ws"

\* JSON.parse(line): white space around the value is allowed; anything
\* else than the text of one value makes it throw.
ParseOk(line) ==
    LET t == SelectSeq(line, NotWs)
    IN  Len(t) = 1 /\ t[1].k = "json"

Parsed(line) ==
    SelectSeq(line, NotWs)[1].e

\* catch (err) { /* Skip malformed lines */ }
OnMalformedThrow(acc) ==
    [acc EXCEPT !.error = TRUE]

OnMalformed(acc) ==
    acc

\* The body of the loop over lines (the same in both readers).
OnLine(acc, line, filters) ==
    IF acc.error THEN acc
    ELSE IF IsBlank(line) THEN acc
    ELSE IF ParseOk(line)
         THEN IF matchesFilters(Parsed(line), filters)
              THEN [acc EXCEPT !.entries = Append(@, Parsed(line))]
              ELSE acc
         ELSE OnMalformed(acc)

\* entries.slice(-last) when last && last > 0
TailSlice(entries, last) ==
    IF last # Absent /\ last > 0 /\ Len(entries) > last
    THEN SubSeq(entries, Len(entries) - last + 1, Len(entries))
    ELSE entries

\* content.split("\n"): the pieces between newlines, the last one included
RECURSIVE SplitLines(_, _)
SplitLines(content, cur) ==
    IF content = <<>> THEN <<cur>>
    ELSE IF Head(content).k = "nl"
         THEN <<cur>> \o SplitLines(Tail(content), <<>>)
         ELSE SplitLines(Tail(content), Append(cur, Head(content)))

RECURSIVE ForLines(_, _, _)
ForLines(acc, lines, filters) ==
    IF lines = <<>> THEN acc
    ELSE ForLines(OnLine(acc, Head(lines), filters), Tail(lines), filters)

readEntriesSync(f, filters) ==
    IF ~f.exists THEN [error |-> FALSE, entries |-> <<>>]
    ELSE LET acc == ForLines([error |-> FALSE, entries |-> <<>>],
                             SplitLines(f.content, <<>>), filters)
         IN  [acc EXCEPT !.entries = TailSlice(@, filters.last)]

\* readline: a "line" event per newline-ended line, and one for what is
\* left at the end of the stream when it is not empty; then "close".
RECURSIVE Stream(_, _, _, _)
Stream(acc, content, cur, filters) ==
    IF content = <<>>
    THEN IF cur = <<>> THEN acc ELSE OnLine(acc, cur, filters)
    ELSE IF Head(content).k = "nl"
         THEN Stream(OnLine(acc, cur, filters), Tail(content), <<>>, filters)
         ELSE Stream(acc, Tail(content), Append(cur, Head(content)), filters)

readEntries(f, filters) ==
    IF ~f.exists THEN [error |-> FALSE, entries |-> <<>>]
    ELSE LET acc == Stream([error |-> FALSE, entries |-> <<>>], f.content, <<>>, filters)
         IN  [acc EXCEPT !.entries = TailSlice(@, filters.last)]

----------------------------------------------------------------------------
(* Body storage and append, one call at a time *)

Idle == [pc |-> "idle"]
Procs == 1 .. NumProcs
IdleProc == [pc |-> "idle", fd |-> FALSE, path |-> "none", calls |-> 0,
             entry |-> NullEntry, result |-> NullEntry, lost |-> FALSE]
NoLock == [exists |-> FALSE, owner |-> Absent, mtime |-> Absent]

RECURSIVE Entries(_)
\* The entries among the chunks of a file, in file order
Entries(content) ==
    IF content = <<>> THEN <<>>
    ELSE IF Head(content).k = "json"
         THEN <<Head(content).e>> \o Entries(Tail(content))
         ELSE Entries(Tail(content))

\* function storeBody(content, isRequest = false)
StoreBody(content, isRequest) ==
    LET hash == Hash(content)
        name == BodyName(hash, isRequest)
    IN  /\ cl.pc = "idle"
        /\ bodies' = IF bodies[name] = Absent
                     THEN [bodies EXCEPT ![name] = content]
                     ELSE bodies
        /\ ret' = [op |-> "storeBody", content |-> content,
                   isRequest |-> isRequest, hash |-> hash]
        /\ UNCHANGED <<now, requests, meta, cl, lock, procs>>

\* generateId(): `${Date.now()}-${random}`; the model keeps the time part.
generateId ==
    now

\* const fullEntry = { id, timestamp, ...entry }: a key of entry wins over
\* the id and the timestamp made up for it.
FullEntry(entry) ==
    Entry(IF entry.id # Absent THEN entry.id ELSE generateId,
          IF entry.timestamp # Absent THEN entry.timestamp ELSE now,
          entry.requestBodyHash, entry.responseBodyHash)

\* fs.appendFileSync(getRequestsPath(), line, { flag: "a" })
AppendLine(f, e) ==
    File(f.content \o Line(e))

\* async function appendEntry(entry), with no other call in flight
AppendEntry(entry) ==
    /\ cl.pc = "idle"
    /\ Len(Entries(requests.content)) < MaxEntries
    /\ requests' = AppendLine(requests, FullEntry(entry))
    /\ ret' = [op |-> "appendEntry"]
    /\ UNCHANGED <<now, bodies, meta, cl, lock, procs>>

\* A capture: storeBody of the bodies, then appendEntry of an entry that
\* carries the hashes returned (Absent: no body of that kind).
Capture(reqBody, resBody) ==
    LET nreq == BodyName(Hash(reqBody), TRUE)
        nres == BodyName(Hash(resBody), FALSE)
        b1 == IF reqBody # Absent /\ bodies[nreq] = Absent
              THEN [bodies EXCEPT ![nreq] = reqBody] ELSE bodies
        b2 == IF resBody # Absent /\ b1[nres] = Absent
              THEN [b1 EXCEPT ![nres] = resBody] ELSE b1
        e == FullEntry(Entry(Absent, Absent,
                             IF reqBody # Absent THEN Hash(reqBody) ELSE Absent,
                             IF resBody # Absent THEN Hash(resBody) ELSE Absent))
    IN  /\ cl.pc = "idle"
        /\ Len(Entries(requests.content)) < MaxEntries
        /\ bodies' = b2
        /\ requests' = AppendLine(requests, e)
        /\ ret' = [op |-> "appendEntry"]
        /\ UNCHANGED <<now, meta, cl, lock, procs>>

\* The clock moves on.
TickTo(limit) ==
    /\ now < limit
    /\ now' = now + TickMs
    /\ UNCHANGED <<requests, bodies, meta, ret, cl, lock, procs>>

Tick ==
    TickTo(MaxClock * TickMs)

----------------------------------------------------------------------------
(* cleanup *)

\* entries.filter(e => e.timestamp >= cutoffTime)
FilterTtl(entries, cutoffTime) ==
    LET Fresh(e) == e.timestamp >= cutoffTime
    IN  SelectSeq(entries, Fresh)

RECURSIVE InsertByTimestamp(_, _)
InsertByTimestamp(sorted, e) ==
    IF sorted = <<>> THEN <<e>>
    ELSE IF e.timestamp < Head(sorted).timestamp
         THEN <<e>> \o sorted
         ELSE <<Head(sorted)>> \o InsertByTimestamp(Tail(sorted), e)

RECURSIVE SortByTimestamp(_)
\* entries.sort((a, b) => a.timestamp - b.timestamp), a stable sort
SortByTimestamp(entries) ==
    IF entries = <<>> THEN <<>>
    ELSE InsertByTimestamp(SortByTimestamp(SubSeq(entries, 1, Len(entries) - 1)),
                           entries[Len(entries)])

RECURSIVE SumBodies(_, _)
\* the sizes of the files of bodies/ added up
SumBodies(b, names) ==
    IF names = {} THEN 0
    ELSE LET n == CHOOSE x \in names : TRUE
         IN  (IF b[n] = Absent THEN 0 ELSE BodySize(b[n])) + SumBodies(b, names \ {n})

\* totalSize as cleanup adds it up: requests.jsonl and every body file
TotalSize(f, b) ==
    FileSize(f) + SumBodies(b, BodyNames)

RECURSIVE Evict(_, _, _, _)
\* while (entries.length > 0 && totalSize > maxSize) {
\*   entries.shift(); totalSize = totalSize * (entries.length / (entries.length + 1)); }
\* totalSize is the fraction num / den (the arithmetic of the code without
\* its rounding).
Evict(entries, num, den, maxSize) ==
    IF Len(entries) > 0 /\ num > maxSize * den
    THEN Evict(Tail(entries), num * (Len(entries) - 1), den * Len(entries), maxSize)
    ELSE entries

\* Steps 1 and 2: the entries that survive
Surviving(f, b, ttl, maxSize, start) ==
    LET entries == FilterTtl(readEntriesSync(f, NoFilters).entries, start - ttl)
        totalSize == TotalSize(f, b)
    IN  IF totalSize > maxSize /\ Len(entries) > 0
        THEN Evict(SortByTimestamp(entries), totalSize, 1, maxSize)
        ELSE entries

\* Only the response bodies are collected
ReferencedHashesResOnly(entries) ==
    {BodyName(entries[i].responseBodyHash, FALSE) :
        i \in {j \in 1 .. Len(entries) : entries[j].responseBodyHash # Absent}}

\* Step 3: referencedHashes (also clear's keepHashes)
ReferencedHashes(entries) ==
    {BodyName(entries[i].requestBodyHash, TRUE) :
        i \in {j \in 1 .. Len(entries) : entries[j].requestBodyHash # Absent}}
    \cup
    {BodyName(entries[i].responseBodyHash, FALSE) :
        i \in {j \in 1 .. Len(entries) : entries[j].responseBodyHash # Absent}}

\* Step 4: every file of bodies/ outside the set is unlinked
DeleteOrphans(b, referenced) ==
    [n \in BodyNames |-> IF n \in referenced THEN b[n] ELSE Absent]

RECURSIVE Lines(_)
\* entries.map(e => JSON.stringify(e)).join("\n") + (entries.length > 0 ? "\n" : "")
Lines(entries) ==
    IF entries = <<>> THEN <<>>
    ELSE Line(Head(entries)) \o Lines(Tail(entries))

\* Step 5: the file is rewritten when deletedEntries > 0 || entries.length === 0
Rewrites(originalCount, kept) ==
    originalCount - Len(kept) > 0 \/ Len(kept) = 0

Files(b) == {n \in BodyNames : b[n] # Absent}

\* if (!fs.existsSync(requestsPath)) { writeMeta(...); return {0, 0, 0} }
CleanupNoLog(start) ==
    /\ meta' = start
    /\ UNCHANGED <<requests, bodies>>

\* async function cleanup(options = {}), run to its end
Cleanup(ttl, maxSize) ==
    LET originalCount == Len(readEntriesSync(requests, NoFilters).entries)
        kept == Surviving(requests, bodies, ttl, maxSize, now)
        after == DeleteOrphans(bodies, ReferencedHashes(kept))
    IN  /\ cl.pc = "idle"
        /\ IF ~requests.exists
           THEN /\ CleanupNoLog(now)
                /\ ret' = [op |-> "cleanup", ttl |-> ttl, maxSize |-> maxSize,
                           deletedEntries |-> 0, deletedBodies |-> 0]
           ELSE /\ bodies' = after
                /\ requests' = IF Rewrites(originalCount, kept)
                               THEN File(Lines(kept)) ELSE requests
                /\ meta' = now
                /\ ret' = [op |-> "cleanup", ttl |-> ttl, maxSize |-> maxSize,
                           deletedEntries |-> originalCount - Len(kept),
                           deletedBodies |-> Cardinality(Files(bodies) \ Files(after))]
        /\ UNCHANGED <<now, cl, lock, procs>>

----------------------------------------------------------------------------
(* clear *)

\* remaining = entries.filter(...): an entry stays when before is given and
\* its timestamp is not before it (origin: not given in this model).
Remaining(entries, before) ==
    LET Stays(e) == e.timestamp >= before
    IN  SelectSeq(entries, Stays)

\* async function clear(options = {}); before = Absent or 0: clear everything
Clear(before) ==
    LET entries == readEntriesSync(requests, NoFilters).entries
        remaining == Remaining(entries, before)
        after == DeleteOrphans(bodies, ReferencedHashes(remaining))
    IN  /\ cl.pc = "idle"
        /\ IF before = Absent \/ before = 0
           THEN /\ requests' = NoFile
                /\ bodies' = [n \in BodyNames |-> Absent]
           ELSE IF ~requests.exists
           THEN UNCHANGED <<requests, bodies>>
           ELSE /\ bodies' = after
                /\ requests' = IF Len(entries) - Len(remaining) > 0
                               THEN File(Lines(remaining)) ELSE requests
        /\ ret' = [op |-> "clear"]
        /\ UNCHANGED <<now, meta, cl, lock, procs>>

----------------------------------------------------------------------------
(* The store used by one process, one call at a time *)

\* No automatic cleanup is waiting and none has run
NoAuto ==
    [pending |-> 0, lastStart |-> Absent, running |-> "none",
     dueAtStart |-> FALSE, ended |-> "none", outcome |-> "none",
     threwAt |-> "none", checks |-> 0, check |-> "none"]

\* No workflow is being executed
NoWorkflow ==
    [pc |-> "none"]

Init ==
    /\ now = 0
    /\ requests = NoFile
    /\ bodies = [n \in BodyNames |-> Absent]
    /\ meta = Absent
    /\ ret = [op |-> "none"]
    /\ cl = Idle
    /\ lock = NoLock
    /\ procs = [p \in Procs |-> IdleProc]
    /\ auto = NoAuto
    /\ wf = NoWorkflow

Ttls == {t * TickMs : t \in 0 .. MaxTtl}
Caps == {LowCap, HighCap}
HashFields == Digests \cup {Absent}

\* What a caller passes to appendEntry: any hashes, its own timestamp or none
EntryInputs ==
    {Entry(Absent, ts, req, res) :
        ts \in Times \cup {Absent}, req \in HashFields, res \in HashFields}

Next ==
    \/ Tick /\ UNCHANGED <<auto, wf>>
    \/ \E c \in Contents, isRequest \in BOOLEAN : StoreBody(c, isRequest) /\ UNCHANGED <<auto, wf>>
    \/ \E entry \in EntryInputs : AppendEntry(entry) /\ UNCHANGED <<auto, wf>>
    \/ \E ttl \in Ttls, maxSize \in Caps : Cleanup(ttl, maxSize) /\ UNCHANGED <<auto, wf>>
    \/ \E before \in Times \cup {Absent} : Clear(before) /\ UNCHANGED <<auto, wf>>

Spec == Init /\ [][Next]_vars

\* Captures and maintenance only: every entry carries the hashes storeBody
\* returned for its bodies.
BodyInputs == Contents \cup {Absent}

NextCapture ==
    \/ Tick /\ UNCHANGED <<auto, wf>>
    \/ \E c \in Contents, isRequest \in BOOLEAN : StoreBody(c, isRequest) /\ UNCHANGED <<auto, wf>>
    \/ \E reqBody \in BodyInputs, resBody \in BodyInputs : Capture(reqBody, resBody) /\ UNCHANGED <<auto, wf>>
    \/ \E ttl \in Ttls, maxSize \in Caps : Cleanup(ttl, maxSize) /\ UNCHANGED <<auto, wf>>
    \/ \E before \in Times \cup {Absent} : Clear(before) /\ UNCHANGED <<auto, wf>>

SpecCapture == Init /\ [][NextCapture]_vars

----------------------------------------------------------------------------
(* Properties of the store used one call at a time *)

LogEntries == Entries(requests.content)

\* The body files the entries name: <hash>.req for a requestBodyHash,
\* <hash>.res for a responseBodyHash
NamedBy(entries) ==
    {n \in BodyNames :
        \E i \in 1 .. Len(entries) :
            \/ n[2] = "req" /\ entries[i].requestBodyHash = n[1]
            \/ n[2] = "res" /\ entries[i].responseBodyHash = n[1]}

\* The body files some entry of requests.jsonl names
Named == NamedBy(LogEntries)

\* C1: after cleanup() returns, every file in bodies/ is named by some
\* entry of requests.jsonl, whether or not requests.jsonl existed.
C1_NoOrphanAfterCleanup ==
    ret.op = "cleanup" => Files(bodies) \subseteq Named

\* The part of C1 the code keeps: cleanup found requests.jsonl (the file
\* is there afterwards only if it was there before).
C1_NoOrphanWhenLogExists ==
    (ret.op = "cleanup" /\ requests.exists) => Files(bodies) \subseteq Named

\* C2: every requestBodyHash / responseBodyHash of an entry in
\* requests.jsonl has its body file in bodies/, in every state reached by
\* captures, cleanup() and clear() calls run one at a time.
C2_ReferencedBodiesPresent ==
    Named \subseteq Files(bodies)

\* C2 witness: a cleanup deleted a body file and kept an entry with a body.
C2_Witness ==
    /\ ret.op = "cleanup"
    /\ ret.deletedBodies > 0
    /\ ret.deletedEntries > 0
    /\ Named # {}

\* C3: after cleanup({maxSize}) the size of requests.jsonl plus the sizes
\* of the files in bodies/ is at most maxSize, or there is no entry left.
C3_WithinCapAfterCleanup ==
    ret.op = "cleanup" =>
        (TotalSize(requests, bodies) <= ret.maxSize \/ Len(LogEntries) = 0)

\* C4: when the on-disk total is within the cap, cleanup() keeps exactly
\* the entries with timestamp >= start - ttl, keeps exactly the body files
\* the kept entries name, and records lastCleanup = start.
C4_TtlExact ==
    [][\A ttl \in Ttls, maxSize \in Caps :
        (Cleanup(ttl, maxSize) /\ TotalSize(requests, bodies) <= maxSize) =>
            LET InTtl(e) == e.timestamp >= now - ttl
                kept == SelectSeq(LogEntries, InTtl)
            IN  /\ LogEntries' = kept
                /\ Files(bodies') = Files(bodies) \cap NamedBy(kept)
                /\ meta' = now]_vars

\* C4 as the code has it: the same, for a cleanup that finds requests.jsonl.
C4_TtlExactWhenLogExists ==
    [][\A ttl \in Ttls, maxSize \in Caps :
        (Cleanup(ttl, maxSize) /\ requests.exists
            /\ TotalSize(requests, bodies) <= maxSize) =>
            LET InTtl(e) == e.timestamp >= now - ttl
                kept == SelectSeq(LogEntries, InTtl)
            IN  /\ LogEntries' = kept
                /\ Files(bodies') = Files(bodies) \cap NamedBy(kept)
                /\ meta' = now]_vars

\* C5: a second cleanup() directly after a first, with the same options
\* and the clock where it was, changes neither requests.jsonl nor bodies/.
C5_CleanupIdempotent ==
    [][\A ttl \in Ttls, maxSize \in Caps :
        (/\ ret.op = "cleanup" /\ ret.ttl = ttl /\ ret.maxSize = maxSize
         /\ meta = now
         /\ Cleanup(ttl, maxSize)) =>
            (requests' = requests /\ bodies' = bodies)]_vars

\* C5 where the cap plays no part: the first cleanup left the total
\* within the cap.
C5_IdempotentWithinCap ==
    [][\A ttl \in Ttls, maxSize \in Caps :
        (/\ ret.op = "cleanup" /\ ret.ttl = ttl /\ ret.maxSize = maxSize
         /\ meta = now
         /\ TotalSize(requests, bodies) <= maxSize
         /\ Cleanup(ttl, maxSize)) =>
            (requests' = requests /\ bodies' = bodies)]_vars

\* A body occupies one file of its kind.
OneFilePerBody ==
    \A n1 \in Files(bodies), n2 \in Files(bodies) :
        (bodies[n1] = bodies[n2] /\ n1[2] = n2[2]) => n1 = n2

\* C6: storing the same content twice (same kind) returns the same hash,
\* the second call leaves bodies/ as it was, and a body occupies one file.
C6_Dedup ==
    /\ []OneFilePerBody
    /\ [][\A c \in Contents, isRequest \in BOOLEAN :
            (/\ ret.op = "storeBody" /\ ret.content = c /\ ret.isRequest = isRequest
             /\ StoreBody(c, isRequest)) =>
                (ret'.hash = ret.hash /\ bodies' = bodies)]_vars

\* C6 witness: two entries with the same body, and one file for it.
C6_Witness ==
    /\ Len(LogEntries) = 2
    /\ LogEntries[1].responseBodyHash # Absent
    /\ LogEntries[1].responseBodyHash = LogEntries[2].responseBodyHash
    /\ Cardinality({n \in Files(bodies) : n[2] = "res"}) = 1

----------------------------------------------------------------------------
(* cleanup() step by step, one file-system call at a time, and a process  *)
(* that may stop at any step                                              *)

\* The log is renamed first, the body files are unlinked afterwards
CleanupOrderRenameFirst ==
    <<"writeTmp", "rename", "unlink", "meta">>

\* The order of cleanup's writes: step 4 (unlink the orphaned body files),
\* step 5 (write the temp file, rename it over requests.jsonl), step 6 (.meta)
CleanupOrder ==
    <<"unlink", "writeTmp", "rename", "meta">>

FirstPhase == CleanupOrder[1]

PhaseAfter(p) ==
    LET i == CHOOSE j \in 1 .. Len(CleanupOrder) : CleanupOrder[j] = p
    IN  IF i = Len(CleanupOrder) THEN "return" ELSE CleanupOrder[i + 1]

\* cleanup() up to the end of step 3: nothing is written yet
CleanupBegin(ttl, maxSize) ==
    /\ cl.pc = "idle"
    /\ IF ~requests.exists
       THEN /\ CleanupNoLog(now)
            /\ ret' = [op |-> "cleanup", ttl |-> ttl, maxSize |-> maxSize,
                       deletedEntries |-> 0, deletedBodies |-> 0]
            /\ UNCHANGED cl
       ELSE /\ cl' = [pc |-> FirstPhase,
                      ttl |-> ttl, maxSize |-> maxSize, start |-> now,
                      originalCount |-> Len(readEntriesSync(requests, NoFilters).entries),
                      kept |-> Surviving(requests, bodies, ttl, maxSize, now),
                      bodyFiles |-> Files(bodies),
                      deletedBodies |-> 0,
                      tmp |-> NoFile,
                      renamed |-> FALSE,
                      namedBefore |-> Named]
            /\ UNCHANGED <<requests, bodies, meta, ret>>
    /\ UNCHANGED <<now, lock, procs>>

\* for (const file of bodyFiles) if (!referencedHashes.has(file)) unlink
CleanupUnlink ==
    /\ cl.pc = "unlink"
    /\ \/ /\ cl.bodyFiles = {}
          /\ cl' = [cl EXCEPT !.pc = PhaseAfter("unlink")]
          /\ UNCHANGED bodies
       \/ \E file \in cl.bodyFiles :
            LET orphan == file \notin ReferencedHashes(cl.kept)
            IN  /\ bodies' = IF orphan THEN [bodies EXCEPT ![file] = Absent] ELSE bodies
                /\ cl' = [cl EXCEPT !.bodyFiles = @ \ {file},
                                    !.deletedBodies = IF orphan THEN @ + 1 ELSE @]
    /\ UNCHANGED <<now, requests, meta, ret, lock, procs>>

\* fs.writeFileSync(tempPath, content), when the file is to be rewritten
CleanupWriteTmp ==
    /\ cl.pc = "writeTmp"
    /\ cl' = [cl EXCEPT !.pc = PhaseAfter("writeTmp"),
                        !.tmp = IF Rewrites(cl.originalCount, cl.kept)
                                THEN File(Lines(cl.kept)) ELSE NoFile]
    /\ UNCHANGED <<now, requests, bodies, meta, ret, lock, procs>>

\* fs.renameSync(tempPath, requestsPath)
CleanupRename ==
    /\ cl.pc = "rename"
    /\ requests' = IF cl.tmp.exists THEN cl.tmp ELSE requests
    /\ cl' = [cl EXCEPT !.pc = PhaseAfter("rename"), !.tmp = NoFile, !.renamed = TRUE]
    /\ UNCHANGED <<now, bodies, meta, ret, lock, procs>>

\* writeMeta({ lastCleanup: now }) and the return
CleanupMeta ==
    /\ cl.pc = "meta"
    /\ meta' = cl.start
    /\ ret' = [op |-> "cleanup", ttl |-> cl.ttl, maxSize |-> cl.maxSize,
               deletedEntries |-> cl.originalCount - Len(cl.kept),
               deletedBodies |-> cl.deletedBodies]
    /\ cl' = IF PhaseAfter("meta") = "return" THEN Idle
             ELSE [cl EXCEPT !.pc = PhaseAfter("meta")]
    /\ UNCHANGED <<now, requests, bodies, lock, procs>>

\* The process stops in the middle of cleanup().
Crash ==
    /\ cl.pc \notin {"idle", "crashed"}
    /\ cl' = [cl EXCEPT !.pc = "crashed"]
    /\ UNCHANGED <<now, requests, bodies, meta, ret, lock, procs>>

NextCrash ==
    \/ Tick /\ UNCHANGED <<auto, wf>>
    \/ \E c \in Contents, isRequest \in BOOLEAN : StoreBody(c, isRequest) /\ UNCHANGED <<auto, wf>>
    \/ \E reqBody \in BodyInputs, resBody \in BodyInputs : Capture(reqBody, resBody) /\ UNCHANGED <<auto, wf>>
    \/ \E ttl \in Ttls, maxSize \in Caps : CleanupBegin(ttl, maxSize) /\ UNCHANGED <<auto, wf>>
    \/ CleanupUnlink /\ UNCHANGED <<auto, wf>>
    \/ CleanupWriteTmp /\ UNCHANGED <<auto, wf>>
    \/ CleanupRename /\ UNCHANGED <<auto, wf>>
    \/ CleanupMeta /\ UNCHANGED <<auto, wf>>
    \/ Crash /\ UNCHANGED <<auto, wf>>

SpecCrash == Init /\ [][NextCrash]_vars

----------------------------------------------------------------------------
(* Processes appending to the same base directory: appendEntrySync one    *)
(* file-system call at a time, and appendEntry                            *)

LOCK_STALE_MS == 5000

\* A distinct id for each call (generateId draws 4 random bytes).
CallId(p, k) ==
    p + NumProcs * k

\* openSync with flag "w": the file is made or truncated, never refused
CanCreateAlways(l) ==
    TRUE

\* fs.openSync(lockPath, "wx") succeeds only when the path does not exist
CanCreate(l) ==
    ~l.exists

\* The append of the fallback branch is not followed by a return
AfterFallbackFallsThrough ==
    "append"

\* line 245: return fullEntry
AfterFallback ==
    "idle"

Held(p) == [exists |-> TRUE, owner |-> p, mtime |-> now]

\* Another process's unlink takes the lock file away from its creator.
Unlinked(p) ==
    [q \in Procs |->
        IF lock.exists /\ lock.owner = q /\ q # p /\ procs[q].fd
        THEN [procs[q] EXCEPT !.lost = TRUE] ELSE procs[q]]

\* appendEntrySync(entry) up to the line to write
SyncCall(p) ==
    /\ procs[p].pc = "idle"
    /\ procs[p].calls < MaxCalls
    /\ procs' = [procs EXCEPT ![p] =
                    [pc |-> "open", fd |-> FALSE, path |-> "none",
                     calls |-> procs[p].calls + 1,
                     entry |-> FullEntry(Entry(CallId(p, procs[p].calls), Absent,
                                               Absent, Absent)),
                     result |-> NullEntry, lost |-> FALSE]]
    /\ UNCHANGED <<now, requests, bodies, meta, ret, cl, lock>>

\* lockFd = fs.openSync(lockPath, "wx")
SyncOpen(p) ==
    /\ procs[p].pc = "open"
    /\ IF CanCreate(lock)
       THEN /\ lock' = Held(p)
            /\ procs' = [procs EXCEPT ![p].pc = "append", ![p].fd = TRUE,
                                      ![p].path = "acquired"]
       ELSE /\ procs' = [procs EXCEPT ![p].pc = "stat"]
            /\ UNCHANGED lock
    /\ UNCHANGED <<now, requests, bodies, meta, ret, cl>>

\* const stat = fs.statSync(lockPath); if (Date.now() - stat.mtimeMs > 5000)
SyncStat(p) ==
    /\ procs[p].pc = "stat"
    /\ procs' = IF ~lock.exists
                THEN [procs EXCEPT ![p].pc = "fallback", ![p].path = "vanished"]
                ELSE IF now - lock.mtime > LOCK_STALE_MS
                THEN [procs EXCEPT ![p].pc = "unlinkStale"]
                ELSE [procs EXCEPT ![p].pc = "fallback", ![p].path = "contested"]
    /\ UNCHANGED <<now, requests, bodies, meta, ret, cl, lock>>

\* fs.unlinkSync(lockPath) of a lock seen stale; it throws when the file
\* is gone, and the outer catch takes over
SyncUnlinkStale(p) ==
    /\ procs[p].pc = "unlinkStale"
    /\ IF lock.exists
       THEN /\ lock' = NoLock
            /\ procs' = [Unlinked(p) EXCEPT ![p].pc = "reopen"]
       ELSE /\ procs' = [procs EXCEPT ![p].pc = "fallback", ![p].path = "vanished"]
            /\ UNCHANGED lock
    /\ UNCHANGED <<now, requests, bodies, meta, ret, cl>>

\* the second fs.openSync(lockPath, "wx")
SyncReopen(p) ==
    /\ procs[p].pc = "reopen"
    /\ IF CanCreate(lock)
       THEN /\ lock' = Held(p)
            /\ procs' = [procs EXCEPT ![p].pc = "append", ![p].fd = TRUE,
                                      ![p].path = "staleReacquired"]
       ELSE /\ procs' = [procs EXCEPT ![p].pc = "fallback", ![p].path = "staleLost"]
            /\ UNCHANGED lock
    /\ UNCHANGED <<now, requests, bodies, meta, ret, cl>>

\* A call returns its entry.
Return(p, pc) ==
    IF pc = "idle" THEN [procs[p] EXCEPT !.pc = pc, !.result = procs[p].entry]
    ELSE [procs[p] EXCEPT !.pc = pc]

\* if (lockFd === undefined) { fs.appendFileSync(...); return fullEntry; }
\* (the call of fs.appendFileSync begins: the process is writing)
SyncFallbackBegin(p) ==
    /\ procs[p].pc = "fallback"
    /\ procs' = [procs EXCEPT ![p].pc = "fallbackWriting"]
    /\ UNCHANGED <<now, requests, bodies, meta, ret, cl, lock>>

SyncFallbackEnd(p) ==
    /\ procs[p].pc = "fallbackWriting"
    /\ requests' = AppendLine(requests, procs[p].entry)
    /\ procs' = [procs EXCEPT ![p] = Return(p, AfterFallback)]
    /\ UNCHANGED <<now, bodies, meta, ret, cl, lock>>

\* try { fs.appendFileSync(...) } finally { ... }
SyncAppendBegin(p) ==
    /\ procs[p].pc = "append"
    /\ procs' = [procs EXCEPT ![p].pc = "appendWriting"]
    /\ UNCHANGED <<now, requests, bodies, meta, ret, cl, lock>>

SyncAppendEnd(p) ==
    /\ procs[p].pc = "appendWriting"
    /\ requests' = AppendLine(requests, procs[p].entry)
    /\ procs' = [procs EXCEPT ![p] = Return(p, IF procs[p].fd THEN "release" ELSE "idle")]
    /\ UNCHANGED <<now, bodies, meta, ret, cl, lock>>

\* fs.closeSync(lockFd); try { fs.unlinkSync(lockPath) } catch (e) {}
SyncRelease(p) ==
    /\ procs[p].pc = "release"
    /\ lock' = NoLock
    /\ procs' = [Unlinked(p) EXCEPT ![p].pc = "idle", ![p].fd = FALSE,
                                    ![p].result = procs[p].entry]
    /\ UNCHANGED <<now, requests, bodies, meta, ret, cl>>

\* appendEntry(entry): no .lock; the write chain of the process is free
AsyncCall(p) ==
    /\ procs[p].pc = "idle"
    /\ procs[p].calls < MaxCalls
    /\ procs' = [procs EXCEPT ![p] =
                    [pc |-> "asyncAppend", fd |-> FALSE, path |-> "async",
                     calls |-> procs[p].calls + 1,
                     entry |-> FullEntry(Entry(CallId(p, procs[p].calls), Absent,
                                               Absent, Absent)),
                     result |-> NullEntry, lost |-> FALSE]]
    /\ UNCHANGED <<now, requests, bodies, meta, ret, cl, lock>>

AsyncAppendBegin(p) ==
    /\ procs[p].pc = "asyncAppend"
    /\ procs' = [procs EXCEPT ![p].pc = "asyncWriting"]
    /\ UNCHANGED <<now, requests, bodies, meta, ret, cl, lock>>

AsyncAppendEnd(p) ==
    /\ procs[p].pc = "asyncWriting"
    /\ requests' = AppendLine(requests, procs[p].entry)
    /\ procs' = [procs EXCEPT ![p] = Return(p, "idle")]
    /\ UNCHANGED <<now, bodies, meta, ret, cl, lock>>

LockTick ==
    TickTo(MaxLockClock * TickMs)

\* One step of process p inside appendEntrySync
SyncStep(p) ==
    \/ SyncOpen(p)
    \/ SyncStat(p)
    \/ SyncUnlinkStale(p)
    \/ SyncReopen(p)
    \/ SyncFallbackBegin(p)
    \/ SyncFallbackEnd(p)
    \/ SyncAppendBegin(p)
    \/ SyncAppendEnd(p)
    \/ SyncRelease(p)

NextSync ==
    \/ LockTick /\ UNCHANGED <<auto, wf>>
    \/ \E p \in Procs : SyncCall(p) /\ UNCHANGED <<auto, wf>>
    \/ \E p \in Procs : SyncOpen(p) /\ UNCHANGED <<auto, wf>>
    \/ \E p \in Procs : SyncStat(p) /\ UNCHANGED <<auto, wf>>
    \/ \E p \in Procs : SyncUnlinkStale(p) /\ UNCHANGED <<auto, wf>>
    \/ \E p \in Procs : SyncReopen(p) /\ UNCHANGED <<auto, wf>>
    \/ \E p \in Procs : SyncFallbackBegin(p) /\ UNCHANGED <<auto, wf>>
    \/ \E p \in Procs : SyncFallbackEnd(p) /\ UNCHANGED <<auto, wf>>
    \/ \E p \in Procs : SyncAppendBegin(p) /\ UNCHANGED <<auto, wf>>
    \/ \E p \in Procs : SyncAppendEnd(p) /\ UNCHANGED <<auto, wf>>
    \/ \E p \in Procs : SyncRelease(p) /\ UNCHANGED <<auto, wf>>

\* Processes that append through appendEntrySync only
SpecSync == Init /\ [][NextSync]_vars

NextLock ==
    \/ NextSync
    \/ \E p \in Procs : AsyncCall(p) /\ UNCHANGED <<auto, wf>>
    \/ \E p \in Procs : AsyncAppendBegin(p) /\ UNCHANGED <<auto, wf>>
    \/ \E p \in Procs : AsyncAppendEnd(p) /\ UNCHANGED <<auto, wf>>

\* Processes that append through appendEntrySync and appendEntry
SpecLock == Init /\ [][NextLock]_vars

----------------------------------------------------------------------------
(* Properties of the append lock *)

\* p is inside fs.appendFileSync
Writing(p) ==
    procs[p].pc \in {"fallbackWriting", "appendWriting", "asyncWriting"}

\* p is inside the append of the lock path (line 250, lockFd defined)
LockedWriting(p) ==
    procs[p].pc = "appendWriting" /\ procs[p].fd

\* p created .lock and its lock file is the one in place
HoldsLock(p) ==
    lock.exists /\ lock.owner = p /\ procs[p].fd

Count(id) ==
    LET WithId(e) == e.id = id
    IN  Len(SelectSeq(LogEntries, WithId))

\* The k-th call of p (k = 0, 1, ...) has returned
Returned(p, k) ==
    k < procs[p].calls - 1 \/ (k = procs[p].calls - 1 /\ procs[p].pc = "idle")

\* C9: appendEntrySync never blocks and never drops an entry: on every
\* lock path it appends the entry's line exactly once and returns the entry.
C9_AppendsExactlyOnce ==
    \A p \in Procs :
        /\ \A k \in 0 .. (procs[p].calls - 1) :
            IF Returned(p, k) THEN Count(CallId(p, k)) = 1
            ELSE Count(CallId(p, k)) <= 1
        /\ (procs[p].pc = "idle" /\ procs[p].calls > 0) =>
                procs[p].result = procs[p].entry
        /\ procs[p].pc # "idle" => ENABLED SyncStep(p)

\* C9 witness: calls have returned on the path of a stale lock broken and
\* re-acquired and on the path of a lock that vanished, each line once.
C9_Witness ==
    \E p \in Procs, q \in Procs :
        /\ procs[p].pc = "idle" /\ procs[p].path = "staleReacquired"
        /\ procs[q].pc = "idle" /\ procs[q].path = "vanished"
        /\ Count(procs[p].entry.id) = 1 /\ Count(procs[q].entry.id) = 1

----------------------------------------------------------------------------
(* Queries on a log with blank, malformed and torn lines *)

\* Two entries the filters tell apart
QueryEntries ==
    {Entry(1, 0, Absent, Absent), Entry(2, TickMs, Absent, 0)}

Chunks == {NL, WS, Junk} \cup {Json(e) : e \in QueryEntries}

RECURSIVE SeqsUpTo(_, _)
\* The sequences over S of length at most n
SeqsUpTo(S, n) ==
    IF n = 0 THEN {<<>>}
    ELSE LET shorter == SeqsUpTo(S, n - 1)
         IN  shorter \cup {Append(q, x) : q \in shorter, x \in S}

\* requests.jsonl after appends, some of them torn or interleaved
InitRead ==
    /\ now = 0
    /\ requests \in {File(c) : c \in SeqsUpTo(Chunks, MaxChunks)}
    /\ bodies = [n \in BodyNames |-> Absent]
    /\ meta = Absent
    /\ ret = [op |-> "none"]
    /\ cl = Idle
    /\ lock = NoLock
    /\ procs = [p \in Procs |-> IdleProc]
    /\ auto = NoAuto
    /\ wf = NoWorkflow

QueryFilters ==
    {Filters(since, hasBody, last) :
        since \in {Absent, TickMs}, hasBody \in {"any", "yes", "no"},
        last \in {Absent, 1}}

\* const entries = await readEntries(filters)
ReadEntries(filters) ==
    /\ ret.op = "none"
    /\ ret' = [op |-> "readEntries", filters |-> filters,
               result |-> readEntries(requests, filters)]
    /\ UNCHANGED <<now, requests, bodies, meta, cl, lock, procs>>

\* const entries = readEntriesSync(filters)
ReadEntriesSync(filters) ==
    /\ ret.op = "none"
    /\ ret' = [op |-> "readEntriesSync", filters |-> filters,
               result |-> readEntriesSync(requests, filters)]
    /\ UNCHANGED <<now, requests, bodies, meta, cl, lock, procs>>

NextRead ==
    \/ \E filters \in QueryFilters : ReadEntries(filters) /\ UNCHANGED <<auto, wf>>
    \/ \E filters \in QueryFilters : ReadEntriesSync(filters) /\ UNCHANGED <<auto, wf>>

SpecRead == InitRead /\ [][NextRead]_vars

\* The line (0, 1, ...) chunk i of the content lies on
LineNo(content, i) ==
    Cardinality({j \in 1 .. (i - 1) : content[j].k = "nl"})

\* Chunk i is the text of an entry with nothing but white space on its line
WellFormedAt(content, i) ==
    /\ content[i].k = "json"
    /\ \A j \in 1 .. Len(content) :
        (j # i /\ content[j].k # "nl" /\ LineNo(content, j) = LineNo(content, i))
            => content[j].k = "ws"

\* The entry passes the filters supplied
Passes(e, f) ==
    /\ f.since = Absent \/ e.timestamp >= f.since
    /\ \/ f.hasBody = "any"
       \/ f.hasBody = "yes" /\ e.responseBodyHash # Absent
       \/ f.hasBody = "no" /\ e.responseBodyHash = Absent

\* The well-formed entries of the log that pass the filters, in log order,
\* cut to the last `last` of them when a tail count is supplied
Expected(content, f) ==
    LET good == {i \in 1 .. Len(content) :
                    WellFormedAt(content, i) /\ Passes(content[i].e, f)}
        n == Cardinality(good)
        Nth(k) == CHOOSE i \in good : Cardinality({j \in good : j < i}) = k - 1
        skip == IF f.last # Absent /\ n > f.last THEN n - f.last ELSE 0
    IN  [k \in 1 .. (n - skip) |-> content[Nth(k + skip)].e]

----------------------------------------------------------------------------
(* Automatic cleanup: maybeAutoCleanup() at module load and on later calls, *)
(* the cleanup() runs it starts through setImmediate, cleanup() called by   *)
(* hand, and a cleanup() that throws part-way                               *)

AUTO_CLEANUP_INTERVAL == 60 * 60 * 1000
DEFAULT_TTL == 24 * 60 * 60 * 1000
DEFAULT_MAX_SIZE == 200 * 1024 * 1024

\* The process that loaded the module
Self == 1

\* Date.now() when the module is loaded
AutoEpoch == 3 * AutoTickMs

\* readMeta().lastCleanup || 0
LastCleanup(m) ==
    IF m = Absent THEN 0 ELSE m

\* if (now - (meta.lastCleanup || 0) > AUTO_CLEANUP_INTERVAL)
Due(m, t) ==
    t - LastCleanup(m) > AUTO_CLEANUP_INTERVAL

\* .meta is written although cleanup() threw, as from a finally block
MetaOnThrowFinally(m, start) ==
    start

\* .meta after a throw inside cleanup(): writeMeta is its last call, so a
\* throw before it or in it leaves the file as it was
MetaOnThrow(m, start) ==
    m

\* The module is loaded on a store whose last cleanup is unknown, half an
\* hour old, or an hour and a half old; maybeAutoCleanup() has made its check.
InitAuto ==
    /\ now = AutoEpoch
    /\ requests = NoFile
    /\ bodies = [n \in BodyNames |-> Absent]
    /\ meta \in {Absent, AutoEpoch - AutoTickMs, 0}
    /\ ret = [op |-> "none"]
    /\ cl = Idle
    /\ lock = NoLock
    /\ procs = [p \in Procs |-> IdleProc]
    /\ auto = [NoAuto EXCEPT !.pending = IF Due(meta, now) THEN 1 ELSE 0,
                             !.check = IF Due(meta, now) THEN "started" ELSE "skipped"]
    /\ wf = NoWorkflow

\* No synchronous code of the process is in progress
Quiet ==
    cl.pc = "idle" /\ procs[Self].pc = "idle"

AutoTick ==
    /\ Quiet
    /\ now < AutoEpoch + MaxAutoClock * AutoTickMs
    /\ now' = now + AutoTickMs
    /\ UNCHANGED <<requests, bodies, meta, ret, cl, lock, procs, auto, wf>>

\* function maybeAutoCleanup(): read .meta, schedule cleanup() when due
MaybeAutoCleanup ==
    /\ Quiet
    /\ Due(meta, now) => auto.pending < MaxPending
    /\ auto' = [auto EXCEPT !.pending = IF Due(meta, now) THEN @ + 1 ELSE @,
                            !.checks = 1 - @,
                            !.check = IF Due(meta, now) THEN "started" ELSE "skipped"]
    /\ UNCHANGED <<now, requests, bodies, meta, ret, cl, lock, procs, wf>>

\* The bookkeeping of a cleanup() call that is in progress or has returned
Ran(a, who) ==
    IF cl'.pc = "idle"
    THEN [a EXCEPT !.running = "none", !.ended = who, !.outcome = "done",
                   !.threwAt = "none", !.check = "none"]
    ELSE [a EXCEPT !.running = who]

\* setImmediate(() => { cleanup().catch(...) }): the callback runs
AutoCleanupBegin ==
    /\ Quiet
    /\ auto.pending > 0
    /\ CleanupBegin(DEFAULT_TTL, DEFAULT_MAX_SIZE)
    /\ auto' = Ran([auto EXCEPT !.pending = @ - 1, !.lastStart = now,
                                !.dueAtStart = Due(meta, now)], "auto")
    /\ UNCHANGED wf

\* cleanup(options) called by the user of the module
ManualCleanupBegin(ttl) ==
    /\ Quiet
    /\ CleanupBegin(ttl, DEFAULT_MAX_SIZE)
    /\ auto' = Ran([auto EXCEPT !.dueAtStart = Due(meta, now)], "manual")
    /\ UNCHANGED wf

\* A file-system call of cleanup() throws: in readEntriesSync, statSync or
\* readdirSync before anything is written, or in writeFileSync, renameSync
\* or writeMeta afterwards.  The promise is rejected.
CleanupThrow ==
    /\ cl.pc \notin {"idle", "crashed"}
    /\ cl' = Idle
    /\ meta' = MetaOnThrow(meta, cl.start)
    /\ ret' = [op |-> "cleanup", error |-> TRUE]
    /\ auto' = [auto EXCEPT !.running = "none", !.ended = auto.running,
                            !.outcome = "failed", !.threwAt = cl.pc,
                            !.check = "none"]
    /\ UNCHANGED <<now, requests, bodies, lock, procs, wf>>

\* writeMeta throws on the path of a store without requests.jsonl
CleanupNoLogThrow(who) ==
    /\ Quiet
    /\ ~requests.exists
    /\ who = "auto" => auto.pending > 0
    /\ meta' = MetaOnThrow(meta, now)
    /\ ret' = [op |-> "cleanup", error |-> TRUE]
    /\ auto' = [auto EXCEPT !.pending = IF who = "auto" THEN @ - 1 ELSE @,
                            !.lastStart = IF who = "auto" THEN now ELSE @,
                            !.dueAtStart = Due(meta, now),
                            !.running = "none", !.ended = who,
                            !.outcome = "failed", !.threwAt = "meta",
                            !.check = "none"]
    /\ UNCHANGED <<now, requests, bodies, cl, lock, procs, wf>>

NextAuto ==
    \/ AutoTick
    \/ MaybeAutoCleanup
    \/ AutoCleanupBegin
    \/ \E ttl \in {0, DEFAULT_TTL} : ManualCleanupBegin(ttl)
    \/ \E who \in {"auto", "manual"} : CleanupNoLogThrow(who)
    \/ CleanupUnlink /\ auto' = Ran(auto, auto.running) /\ UNCHANGED wf
    \/ CleanupWriteTmp /\ auto' = Ran(auto, auto.running) /\ UNCHANGED wf
    \/ CleanupRename /\ auto' = Ran(auto, auto.running) /\ UNCHANGED wf
    \/ CleanupMeta /\ auto' = Ran(auto, auto.running) /\ UNCHANGED wf
    \/ CleanupThrow
    \/ Quiet /\ Capture(Absent, 0) /\ UNCHANGED <<auto, wf>>
    \/ Quiet /\ procs[Self].calls = 0 /\ SyncCall(Self) /\ UNCHANGED <<auto, wf>>
    \/ SyncOpen(Self) /\ UNCHANGED <<auto, wf>>
    \/ SyncAppendBegin(Self) /\ UNCHANGED <<auto, wf>>
    \/ SyncAppendEnd(Self) /\ UNCHANGED <<auto, wf>>
    \/ SyncRelease(Self) /\ UNCHANGED <<auto, wf>>

SpecAuto == InitAuto /\ [][NextAuto]_vars

\* An automatically started cleanup() begins in this step
AutoBegins ==
    AutoCleanupBegin \/ CleanupNoLogThrow("auto")

\* C11: no two automatically started cleanup() runs of a process begin less
\* than AUTO_CLEANUP_INTERVAL (one hour) apart.
C11_AutoCleanupHourly ==
    [][(AutoBegins /\ auto.lastStart # Absent) =>
            now - auto.lastStart >= AUTO_CLEANUP_INTERVAL]_vars

\* cleanup() throws in this step
Throws ==
    CleanupThrow \/ \E who \in {"auto", "manual"} : CleanupNoLogThrow(who)

\* The entries a reader finds in the file
Readable(f) ==
    readEntriesSync(f, NoFilters).entries

\* The appends after a failed cleanup() succeed and can be read back:
\* appendEntry adds its entry to what readEntriesSync returns, an
\* appendEntrySync call returns an entry that readEntriesSync returns, and
\* neither is held up.
AppendsAfterFailure ==
    /\ [][\A resBody \in BodyInputs :
            (auto.outcome = "failed" /\ Quiet /\ Capture(Absent, resBody)) =>
                (/\ Len(Readable(requests')) = Len(Readable(requests)) + 1
                 /\ Readable(requests')[Len(Readable(requests'))].timestamp = now)]_vars
    /\ [][(auto.outcome = "failed" /\ SyncRelease(Self)) =>
            procs'[Self].result \in
                {Readable(requests')[i] : i \in 1 .. Len(Readable(requests'))}]_vars
    /\ [](auto.outcome = "failed" /\ Quiet =>
            /\ Len(Entries(requests.content)) < MaxEntries =>
                    ENABLED Capture(Absent, Absent)
            /\ procs[Self].calls < MaxCalls => ENABLED SyncCall(Self))
    /\ [](auto.outcome = "failed" /\ procs[Self].pc # "idle" =>
            ENABLED SyncStep(Self))

\* C12 as stated: a cleanup() that throws leaves lastCleanup as it was, the
\* first maybeAutoCleanup() check after it starts a cleanup, and the appends
\* after it succeed and are readable.
C12_FailedCleanupRetried ==
    /\ [][Throws => meta' = meta]_vars
    /\ [][(MaybeAutoCleanup /\ auto.outcome = "failed") =>
            auto'.pending = auto.pending + 1]_vars
    /\ AppendsAfterFailure

\* C12, amended: a cleanup() that throws leaves lastCleanup as it was, so
\* the first maybeAutoCleanup() check after it starts a cleanup exactly when
\* lastCleanup is more than an hour old, and so whenever lastCleanup was
\* more than an hour old as the failed run began; the appends after the
\* failure succeed and are readable.
C12_FailedCleanupRetriedWhenDue ==
    /\ [][Throws => meta' = meta]_vars
    /\ [][(MaybeAutoCleanup /\ auto.outcome = "failed") =>
            /\ auto'.pending = auto.pending + 1 <=>
                    now - (IF meta = Absent THEN 0 ELSE meta) > AUTO_CLEANUP_INTERVAL
            /\ auto.dueAtStart => auto'.pending = auto.pending + 1]_vars
    /\ AppendsAfterFailure

\* C12 witness: an automatic cleanup() has thrown in renameSync, with its
\* temp file written; the check made since has started another, and an
\* entry appended since the failure is in the log.
C12_Witness ==
    /\ auto.outcome = "failed" /\ auto.ended = "auto" /\ auto.dueAtStart
    /\ auto.threwAt = "rename"
    /\ auto.check = "started" /\ auto.pending > 0
    /\ ret.op = "appendEntry"
    /\ Len(Readable(requests)) > 0
    /\ meta # Absent

----------------------------------------------------------------------------
(* The workflow engine: values, %{name} templates and their substitution *)

MAX_LOOP_ITERATIONS == 100

\* Values of the variable map.  A string is its text, a number its value,
\* an array its elements.
Value(t, s, n, a) == [t |-> t, s |-> s, n |-> n, a |-> a]
Undefined == Value("undefined", "", 0, <<>>)
Null == Value("null", "", 0, <<>>)
Str(s) == Value("string", s, 0, <<>>)
Num(n) == Value("number", "", n, <<>>)
Bool(b) == Value("boolean", IF b THEN "true" ELSE "false", 0, <<>>)
Arr(a) == Value("array", "", 0, a)

\* JavaScript truthiness
Truthy(v) ==
    CASE v.t = "undefined" -> FALSE
      [] v.t = "null" -> FALSE
      [] v.t = "string" -> v.s # ""
      [] v.t = "number" -> v.n # 0
      [] v.t = "boolean" -> v.s = "true"
      [] OTHER -> TRUE

\* String(val) of a value that is not an object
StringOf(v) ==
    CASE v.t = "number" -> ToString(v.n)
      [] v.t = "undefined" -> "undefined"
      [] v.t = "null" -> "null"
      [] OTHER -> v.s

\* JSON.stringify of an array element or a scalar
JsonScalar(v) ==
    IF v.t = "string" THEN "\"" \o v.s \o "\"" ELSE StringOf(v)

RECURSIVE JsonJoin(_)
JsonJoin(a) ==
    IF Len(a) = 0 THEN ""
    ELSE IF Len(a) = 1 THEN JsonScalar(a[1])
    ELSE JsonScalar(a[1]) \o "," \o JsonJoin(Tail(a))

\* JSON.stringify(val) for typeof val === 'object' (an array, or null)
JsonStringify(v) ==
    IF v.t = "array" THEN "[" \o JsonJoin(v.a) \o "]" ELSE JsonScalar(v)

\* The names of variables
Names == {"x", "y", "u", "item", "urls", "_index", "_iteration"}

\* A variable map: every name is bound to a value or is undefined
NoVars == [name \in Names |-> Undefined]

\* A string with %{name} references is the sequence of its parts: literal
\* text, and references (each /%\{(\w+)\}/ match)
Lit(s) == [lit |-> s, ref |-> ""]
Ref(name) == [lit |-> "", ref |-> name]

\* The text of a reference: `%{${name}}`
RefText(name) == "%{" \o name \o "}"

\* What the callback of replace returns for a bound name: JSON for an
\* object or array, String(val) otherwise
Interpolated(v) ==
    IF v.t \in {"array", "null"} THEN JsonStringify(v) ELSE StringOf(v)

RECURSIVE Replace(_, _)
\* template.replace(/%\{(\w+)\}/g, ...)
Replace(parts, vmap) ==
    IF Len(parts) = 0 THEN ""
    ELSE LET p == parts[1]
             text == IF p.ref = "" THEN p.lit
                     ELSE IF p.ref \notin Names \/ vmap[p.ref] = Undefined
                     THEN RefText(p.ref)
                     ELSE Interpolated(vmap[p.ref])
         IN  text \o Replace(Tail(parts), vmap)

\* An argument of a step: a string (its parts), or a value that is not a
\* string, or an array of such
Tpl(parts) == [k |-> "string", parts |-> parts, v |-> Undefined, items |-> <<>>]
Val(v) == [k |-> "value", parts |-> <<>>, v |-> v, items |-> <<>>]
List(items) == [k |-> "array", parts |-> <<>>, v |-> Undefined, items |-> items]

\* function resolveVar(template, vars), for a string template: the value
\* itself for a whole-string reference to a bound name, the replaced text
\* otherwise
resolveVar(parts, vmap) ==
    IF Len(parts) = 1 /\ parts[1].ref # ""
    THEN IF parts[1].ref \in Names /\ vmap[parts[1].ref] # Undefined
         THEN vmap[parts[1].ref]
         ELSE Str(RefText(parts[1].ref))
    ELSE Str(Replace(parts, vmap))

\* What is sent for one argument
ResolveArg(arg, vmap) ==
    CASE arg.k = "string" -> resolveVar(arg.parts, vmap)
      [] arg.k = "value" -> arg.v
      [] OTHER -> Arr([i \in 1 .. Len(arg.items) |->
                        IF arg.items[i].k = "string"
                        THEN resolveVar(arg.items[i].parts, vmap)
                        ELSE arg.items[i].v])

\* function substituteVars(args, vars): args is the sequence of the values
\* of the object's entries
substituteVars(args, vmap) ==
    [i \in 1 .. Len(args) |-> ResolveArg(args[i], vmap)]

----------------------------------------------------------------------------
(* The workflow engine: steps, frames and the result of a step *)

\* A leaf { cmd, args, as? } or a loop { repeat | each, steps, until?, as? };
\* cmd is the sequence of the dot-separated words of the command name,
\* as = "" when the step has none, until = <<>> or <<leaf>>
Leaf(cmd, args, as) ==
    [kind |-> "leaf", cmd |-> cmd, args |-> args, as |-> as,
     count |-> Val(Undefined), steps |-> <<>>, until |-> <<>>]

RepeatLoop(count, steps, until) ==
    [kind |-> "repeat", cmd |-> <<>>, args |-> <<>>, as |-> "",
     count |-> count, steps |-> steps, until |-> until]

EachLoop(each, as, steps, until) ==
    [kind |-> "each", cmd |-> <<>>, args |-> <<>>, as |-> as,
     count |-> each, steps |-> steps, until |-> until]

NoStep == Leaf(<<>>, <<>>, "")

\* const isLoop = step.repeat !== undefined || step.each !== undefined
IsLoop(step) == step.kind # "leaf"

\* AUTO_WAIT_MAP
AUTO_WAIT_MAP ==
    [navigate |-> "wait.load", go |-> "wait.load", click |-> "wait.dom",
     key |-> "wait.dom", form_fill |-> "wait.dom", submit |-> "wait.load",
     tab_switch |-> "wait.load", tab_new |-> "wait.load",
     back |-> "wait.load", forward |-> "wait.load"]

\* A command name is the sequence of its dot-separated words; the key of a
\* command in AUTO_WAIT_MAP joins them
RECURSIVE Key(_)
Key(cmd) ==
    IF Len(cmd) = 0 THEN ""
    ELSE IF Len(cmd) = 1 THEN cmd[1]
    ELSE cmd[1] \o "_" \o Key(Tail(cmd))

\* The name as it is sent
RECURSIVE Dotted(_)
Dotted(cmd) ==
    IF Len(cmd) = 0 THEN ""
    ELSE IF Len(cmd) = 1 THEN cmd[1]
    ELSE cmd[1] \o "." \o Dotted(Tail(cmd))

\* Every command gets the wait of a navigation
getAutoWaitCommandAlwaysLoad(cmd) ==
    "wait.load"

\* function getAutoWaitCommand(cmd): the exact match first, then the first
\* key of the map that is a prefix of cmd followed by a dot; "" for null
getAutoWaitCommand(cmd) ==
    IF Key(cmd) \in DOMAIN AUTO_WAIT_MAP THEN AUTO_WAIT_MAP[Key(cmd)]
    ELSE LET prefixes == {k \in 1 .. (Len(cmd) - 1) :
                            Key(SubSeq(cmd, 1, k)) \in DOMAIN AUTO_WAIT_MAP}
         IN  IF prefixes = {} THEN ""
             ELSE AUTO_WAIT_MAP[Key(SubSeq(cmd, 1, CHOOSE k \in prefixes : TRUE))]

\* A request on the socket: { tool, args }
Request(tool, args) == [tool |-> tool, args |-> args]

\* waitCmd === 'wait.load' ? { timeout: 10000 } : { stable: 100, timeout: 5000 }
WaitArgs(waitCmd) ==
    IF waitCmd = "wait.load" THEN <<Num(10000)>> ELSE <<Num(100), Num(5000)>>

\* parseInt(s, 10) of a numeral; NaN (Undefined here) for the other texts
ParseInt(s) ==
    IF \E n \in 0 .. (2 * MAX_LOOP_ITERATIONS) : ToString(n) = s
    THEN Num(CHOOSE n \in 0 .. (2 * MAX_LOOP_ITERATIONS) : ToString(n) = s)
    ELSE Undefined

Min(a, b) == IF a < b THEN a ELSE b

\* A loop runs as often as it is asked to
CapNone(n) ==
    n

\* Math.min(..., MAX_LOOP_ITERATIONS)
Cap(n) ==
    Min(n, MAX_LOOP_ITERATIONS)

\* The repeat loop without Math.min(max, MAX_LOOP_ITERATIONS)
RepeatMaxUncapped(step, vmap) ==
    LET r == ResolveArg(step.count, vmap)
        m == IF r.t = "string" THEN ParseInt(r.s) ELSE r
    IN  IF m.t = "number" THEN m.n ELSE 1

\* The number of iterations of a repeat loop
RepeatMax(step, vmap) ==
    LET r == ResolveArg(step.count, vmap)
        m == IF r.t = "string" THEN ParseInt(r.s) ELSE r
    IN  Cap(IF m.t = "number" THEN m.n ELSE 1)

\* The element of the last iteration is bound first
ItemAtReversed(items, i) ==
    items[Len(items) - i]

\* items[i], i = 0, 1, ...
ItemAt(items, i) ==
    items[i + 1]

\* const itemVar = step.as || 'item'
ItemVar(step) ==
    IF step.as = "" THEN "item" ELSE step.as

\* const loopVars = { ...vars, [itemVar]: items[i], _index: i, _iteration: i + 1 }
LoopVars(vmap, step, items, i) ==
    LET scoped == [vmap EXCEPT !["_index"] = Num(i), !["_iteration"] = Num(i + 1)]
    IN  IF step.kind = "each"
        THEN [scoped EXCEPT ![ItemVar(step)] = ItemAt(items, i)]
        ELSE scoped

\* The names copied back are the `as` of the nested steps that are not
\* loops
Captured(steps) ==
    {steps[k].as : k \in {j \in 1 .. Len(steps) : ~IsLoop(steps[j]) /\ steps[j].as # ""}}

\* vars[nestedStep.as] = loopVars[nestedStep.as], when it is not undefined
CopyBack(vmap, loopVars, steps) ==
    [name \in Names |->
        IF name \in Captured(steps) /\ loopVars[name] # Undefined
        THEN loopVars[name] ELSE vmap[name]]

\* A frame: executeDoSteps itself ("top"), or one call of executeStep for
\* a loop.  steps[j] is the step to execute next, i the iteration; caps
\* records the names captured since the iteration began.
Frame(kind, step, steps, vmap, i, max, items) ==
    [kind |-> kind, step |-> step, steps |-> steps, j |-> 1, vmap |-> vmap,
     i |-> i, max |-> max, items |-> items, total |-> 0, caps |-> {}]

\* { success, error?, stepsExecuted }, of a loop or of a leaf
Result(success, error, stepsExecuted, loop) ==
    [success |-> success, error |-> error, stepsExecuted |-> stepsExecuted,
     loop |-> loop]

NoError == [how |-> "none", request |-> 0]

\* The top of the stack
Top(stack) == stack[Len(stack)]
Pop(stack) == SubSeq(stack, 1, Len(stack) - 1)
SetTop(stack, f) == [stack EXCEPT ![Len(stack)] = f]

\* What executeDoSteps returns, and its counters on the way
NotReturned ==
    [status |-> "running", error |-> NoError, failed |-> 0,
     stepsExecuted |-> 0, completedSteps |-> 0]

RECURSIVE Deliver(_, _, _, _)
\* The caller of a step receives its result: executeDoSteps or the loop
\* the step is nested in.  Gives the new stack and the new state of
\* executeDoSteps.
Deliver(stack, out, res, onError) ==
    LET f == Top(stack)
        stops == ~res.success /\ onError = "stop"
    IN  IF f.kind = "top"
        THEN LET executed == out.stepsExecuted
                                + (IF res.loop THEN res.stepsExecuted ELSE 1)
                 failed == out.failed + (IF res.success THEN 0 ELSE 1)
             IN  [stack |-> IF stops THEN stack
                            ELSE SetTop(stack, [f EXCEPT !.j = @ + 1]),
                  out |-> [status |-> IF stops THEN "failed" ELSE "running",
                           error |-> IF stops THEN res.error ELSE out.error,
                           failed |-> failed,
                           stepsExecuted |-> executed,
                           completedSteps |->
                                IF ~stops THEN out.completedSteps
                                ELSE IF res.loop THEN executed ELSE executed - 1]]
        ELSE LET total == f.total
                            + (IF res.stepsExecuted = 0 THEN 1 ELSE res.stepsExecuted)
             IN  IF stops
                 THEN Deliver(Pop(stack), out,
                              Result(FALSE, res.error, total, TRUE), onError)
                 ELSE [stack |-> SetTop(stack, [f EXCEPT !.j = @ + 1, !.total = total]),
                       out |-> out]

----------------------------------------------------------------------------
(* The workflow engine: executeDoSteps, one request at a time *)

\* The iteration after the current one of the loop on top of the stack
NextIteration(stack) ==
    LET f == Top(stack)
        parent == stack[Len(stack) - 1]
        i == f.i + 1
    IN  SetTop(stack, [f EXCEPT !.i = i, !.j = 1, !.caps = {},
                                !.vmap = IF i < f.max
                                         THEN LoopVars(parent.vmap, f.step, f.items, i)
                                         ELSE f.vmap])

\* executeDoSteps(steps, { onError, autoWait }) is called
Start(steps, onError, autoWait) ==
    [pc |-> "run", steps |-> steps, onError |-> onError, autoWait |-> autoWait,
     stack |-> <<Frame("top", NoStep, steps, NoVars, 0, 0, <<>>)>>,
     out |-> NotReturned,
     sent |-> <<>>, by |-> "none",
     cur |-> NoStep, isUntil |-> FALSE,
     reply |-> [kind |-> "none", value |-> Undefined],
     lastWait |-> "none",
     captured |-> NoVars, failedLeaf |-> FALSE]

\* The state of the engine once the caller of a step has its result
Delivered(w, stack, res) ==
    LET d == Deliver(stack, w.out, res, w.onError)
    IN  [w EXCEPT !.stack = d.stack, !.out = d.out,
                  !.pc = IF d.out.status = "failed" THEN "done" ELSE "run",
                  !.cur = NoStep, !.isUntil = FALSE]

\* if (step.until): in the repeat loop only; the each loop has no such test
ChecksUntil(step) ==
    step.kind = "repeat" /\ step.until # <<>>

\* A failing auto-wait fails the step
WaitResultStrict(res, outcome) ==
    IF outcome = "ok" THEN res
    ELSE Result(FALSE, [how |-> outcome, request |-> 0], 1, FALSE)

\* try { await sendDoRequest(waitCmd, ...) } catch { }: the step's result
\* does not depend on how the wait settles
WaitResult(res, outcome) ==
    res

\* executeSingleStep has returned res, with output as its output
Completed(w, res, output) ==
    IF ~w.isUntil THEN Delivered(w, w.stack, res)
    ELSE LET f == Top(w.stack)
             counted == SetTop(w.stack, [f EXCEPT !.total = @ + 1])
         IN  IF Truthy(output)
             THEN Delivered(w, Pop(w.stack),
                            Result(TRUE, NoError, f.total + 1, TRUE))
             ELSE [w EXCEPT !.stack = NextIteration(counted), !.pc = "run",
                            !.cur = NoStep, !.isUntil = FALSE]

\* return { success: true, output: step.as ? vars[step.as] : undefined }
Output(w) ==
    IF w.cur.as = "" THEN Undefined ELSE Top(w.stack).vmap[w.cur.as]

\* The steps left in the frame on top, of an iteration that has begun
HasStep(f) ==
    f.j <= Len(f.steps) /\ (f.kind # "top" => f.i < f.max)

\* sendDoRequest is called and not awaited: the engine goes on at once
IssuedNotAwaited(w, step, isUntil) ==
    [w EXCEPT !.sent = Append(@, Request(Dotted(step.cmd),
                                         substituteVars(step.args, Top(w.stack).vmap))),
              !.by = IF isUntil THEN "until" ELSE "step",
              !.cur = step, !.isUntil = isUntil]

\* const resp = await sendDoRequest(step.cmd, resolvedArgs, context)
Issued(w, step, isUntil) ==
    [w EXCEPT !.sent = Append(@, Request(Dotted(step.cmd),
                                         substituteVars(step.args, Top(w.stack).vmap))),
              !.by = IF isUntil THEN "until" ELSE "step",
              !.cur = step, !.isUntil = isUntil, !.pc = "sent"]

\* executeSingleStep: substituteVars and sendDoRequest(step.cmd, resolvedArgs)
IssueStep ==
    /\ wf.pc = "run"
    /\ HasStep(Top(wf.stack))
    /\ ~IsLoop(Top(wf.stack).steps[Top(wf.stack).j])
    /\ wf' = Issued(wf, Top(wf.stack).steps[Top(wf.stack).j], FALSE)
    /\ UNCHANGED <<now, requests, bodies, meta, ret, cl, lock, procs, auto>>

\* executeStep on a loop, up to its first iteration
EnterLoop ==
    /\ wf.pc = "run"
    /\ HasStep(Top(wf.stack))
    /\ IsLoop(Top(wf.stack).steps[Top(wf.stack).j])
    /\ LET f == Top(wf.stack)
           step == f.steps[f.j]
           items == ResolveArg(step.count, f.vmap)
           max == IF step.kind = "repeat" THEN RepeatMax(step, f.vmap)
                  ELSE IF items.t = "array" THEN Cap(Len(items.a)) ELSE 0
           refused == \/ step.kind = "each" /\ items.t # "array"
                      \/ Len(step.steps) = 0
       IN  wf' = IF refused
                 THEN Delivered(wf, wf.stack,
                                Result(FALSE, [how |-> "refused", request |-> 0], 0, TRUE))
                 ELSE [wf EXCEPT !.stack = Append(@,
                            Frame(step.kind, step, step.steps,
                                  IF max > 0
                                  THEN LoopVars(f.vmap, step,
                                                IF step.kind = "each" THEN items.a ELSE <<>>, 0)
                                  ELSE f.vmap,
                                  0, max,
                                  IF step.kind = "each" THEN items.a ELSE <<>>))]
    /\ UNCHANGED <<now, requests, bodies, meta, ret, cl, lock, procs, auto>>

\* The nested steps of an iteration are done: copy the captures back, then
\* the until step, or the next iteration
EndIteration ==
    /\ wf.pc = "run"
    /\ Len(wf.stack) > 1
    /\ Top(wf.stack).i < Top(wf.stack).max
    /\ Top(wf.stack).j > Len(Top(wf.stack).steps)
    /\ LET f == Top(wf.stack)
           n == Len(wf.stack)
           parent == wf.stack[n - 1]
           copied == [wf.stack EXCEPT ![n - 1].vmap = CopyBack(parent.vmap, f.vmap, f.steps)]
       IN  wf' = IF ChecksUntil(f.step)
                 THEN Issued([wf EXCEPT !.stack = copied], f.step.until[1], TRUE)
                 ELSE [wf EXCEPT !.stack = NextIteration(copied)]
    /\ UNCHANGED <<now, requests, bodies, meta, ret, cl, lock, procs, auto>>

\* for (let i = 0; i < max; i++) is over: return { success: true, ... }
ExitLoop ==
    /\ wf.pc = "run"
    /\ Len(wf.stack) > 1
    /\ Top(wf.stack).i >= Top(wf.stack).max
    /\ wf' = Delivered(wf, Pop(wf.stack),
                       Result(TRUE, NoError, Top(wf.stack).total, TRUE))
    /\ UNCHANGED <<now, requests, bodies, meta, ret, cl, lock, procs, auto>>

\* The names captured by the steps of the iterations in progress
Noted(stack, name) ==
    [k \in 1 .. Len(stack) |-> [stack[k] EXCEPT !.caps = @ \cup {name}]]

\* The capture is made before the reply is looked at for an error
VarsOnErrorCaptured(stack, bound) ==
    bound

\* if (resp.error) return { success: false, ... } and the catch block come
\* before vars[step.as] = output: the variables are as they were
VarsOnError(stack, bound) ==
    stack

\* The request of the step settles: a reply without error, a reply with
\* resp.error, or a rejection (socket error, invalid JSON, timeout)
Reply(kind, value) ==
    /\ wf.pc = "sent"
    /\ LET f == Top(wf.stack)
           as == wf.cur.as
           set == SetTop(wf.stack, [f EXCEPT !.vmap[as] = value])
           bound == IF as = "" THEN wf.stack
                    ELSE IF wf.isUntil THEN set ELSE Noted(set, as)
           waitCmd == IF wf.autoWait THEN getAutoWaitCommand(wf.cur.cmd) ELSE ""
           replied == [wf EXCEPT !.reply = [kind |-> kind, value |-> value]]
       IN  wf' = IF kind # "ok"
                 THEN Completed([replied EXCEPT !.failedLeaf = TRUE,
                                                !.stack = VarsOnError(wf.stack, bound)],
                                Result(FALSE, [how |-> kind, request |-> Len(wf.sent)],
                                       1, FALSE),
                                Undefined)
                 ELSE LET got == [replied EXCEPT
                                    !.stack = bound,
                                    !.captured = IF as = "" THEN @
                                                 ELSE [@ EXCEPT ![as] = value]]
                      IN  IF waitCmd # ""
                          THEN [got EXCEPT !.sent = Append(@, Request(waitCmd, WaitArgs(waitCmd))),
                                           !.by = "wait", !.pc = "wait"]
                          ELSE Completed(got, Result(TRUE, NoError, 1, FALSE), Output(got))
    /\ UNCHANGED <<now, requests, bodies, meta, ret, cl, lock, procs, auto>>

\* How a wait request can settle
WaitOutcomes == {"ok", "error", "timeout", "noconnect"}

\* The engine after the auto-wait has settled
Settled(w, outcome) ==
    LET res == WaitResult(Result(TRUE, NoError, 1, FALSE), outcome)
        settled == [w EXCEPT !.lastWait = outcome,
                             !.failedLeaf = @ \/ ~res.success]
    IN  Completed(settled, res, IF res.success THEN Output(w) ELSE Undefined)

\* The auto-wait request settles
AutoWaitSettles(outcome) ==
    /\ wf.pc = "wait"
    /\ wf' = Settled(wf, outcome)
    /\ UNCHANGED <<now, requests, bodies, meta, ret, cl, lock, procs, auto>>

\* The list is done: executeDoSteps returns 'completed' or 'partial'
Finish ==
    /\ wf.pc = "run"
    /\ Len(wf.stack) = 1
    /\ Top(wf.stack).j > Len(wf.steps)
    /\ wf' = [wf EXCEPT !.pc = "done",
                        !.out = [@ EXCEPT !.status = IF wf.out.failed > 0
                                                     THEN "partial" ELSE "completed",
                                          !.completedSteps = wf.out.stepsExecuted]]
    /\ UNCHANGED <<now, requests, bodies, meta, ret, cl, lock, procs, auto>>

----------------------------------------------------------------------------
(* The workflows of the model and the replies of the daemon *)

\* The array a `list` step can return: its first elements are a, "b c", d
Element(i) ==
    CASE i = 1 -> Str("a")
      [] i = 2 -> Str("b c")
      [] i = 3 -> Str("d")
      [] OTHER -> Str(ToString(i))

ListOf(n) == Arr([i \in 1 .. n |-> Element(i)])

LongList == MAX_LOOP_ITERATIONS + 1

\* What a reply without error carries, by command
Outputs(cmd) ==
    CASE cmd = <<"js">> -> {Str("b c"), Bool(FALSE), ListOf(ShortList)}
      [] cmd = <<"list">> -> {ListOf(0), ListOf(ShortList)}
      [] cmd = <<"links">> -> {ListOf(MAX_LOOP_ITERATIONS), ListOf(LongList)}
      [] OTHER -> {Str("ok")}

\* The steps the workflows are made of
Js(as) == Leaf(<<"js">>, <<Tpl(<<Lit("return it")>>)>>, as)
Go(name) == Leaf(<<"go">>, <<Tpl(<<Ref(name)>>)>>, "")
TypeText(name) == Leaf(<<"type">>, <<Tpl(<<Lit("q="), Ref(name)>>)>>, "")
Click == Leaf(<<"click">>, <<Val(Num(1))>>, "")
ListUrls == Leaf(<<"list">>, <<>>, "urls")
ListLinks == Leaf(<<"links">>, <<>>, "urls")

\* Commands with an auto-wait, with none, and with a suffixed name
Commands ==
    {<<"go">>, <<"navigate">>, <<"submit">>, <<"tab", "switch">>, <<"tab", "new">>,
     <<"back">>, <<"forward">>, <<"click">>, <<"key">>, <<"form", "fill">>,
     <<"type">>, <<"js">>, <<"tab", "close">>, <<"form">>, <<"click", "at">>,
     <<"tab", "new", "window">>}

\* How often a repeat loop is asked to run
RepeatCounts ==
    {0, FewTimes, MAX_LOOP_ITERATIONS, MAX_LOOP_ITERATIONS + 1, 2 * MAX_LOOP_ITERATIONS}

\* One command, then a step that has no wait of its own; a command with a
\* wait whose reply is captured
CommandFlows ==
    {<<Leaf(cmd, <<>>, ""), TypeText("x")>> : cmd \in Commands}
    \cup {<<Leaf(<<"click">>, <<>>, "x"), TypeText("x")>>}

\* Capture, capture again, use: as a whole argument, inside a text, in an
\* array, next to a name that nothing captures
CaptureFlows ==
    {<<Js("x"), Js(again),
       Leaf(<<"tab", "new">>,
            <<Tpl(<<Ref("x")>>), Tpl(<<Lit("/search?q="), Ref("x"), Lit("&p="), Ref("y")>>),
              List(<<Tpl(<<Ref("x")>>), Val(Num(7))>>), Tpl(<<Ref("u")>>)>>, "")>> :
        again \in {"x", "y"}}

\* A loop that runs a command a number of times, or once per element
CountedFlows ==
    {<<RepeatLoop(Val(Num(n)), <<TypeText("_iteration")>>, <<>>)>> : n \in RepeatCounts}
    \cup {<<Js("x"), RepeatLoop(Tpl(<<Ref("x")>>), <<Click>>, <<>>)>>}
    \cup {<<ListUrls, EachLoop(Tpl(<<Ref("urls")>>), as, <<Go(ItemVar([as |-> as]))>>, <<>>)>> :
            as \in {"u", ""}}
    \cup {<<Js("urls"), EachLoop(Tpl(<<Ref("urls")>>), "u", <<Go("u")>>, <<>>)>>}
    \cup {<<ListLinks, EachLoop(Tpl(<<Ref("urls")>>), "", <<TypeText("item")>>, <<>>)>>}

\* Captures in the body of a loop, and in a loop inside a loop
LoopCaptureFlows ==
    {<<RepeatLoop(Val(Num(FewTimes)), <<Js("x")>>, <<>>), TypeText("x")>>,
     <<Js("urls"), EachLoop(Tpl(<<Ref("urls")>>), "", <<Js("x"), TypeText("x")>>, <<>>),
       TypeText("x")>>,
     <<RepeatLoop(Val(Num(FewTimes)),
                  <<TypeText("x"), RepeatLoop(Val(Num(1)), <<Js("x")>>, <<>>)>>, <<>>),
       TypeText("x")>>}

\* Loops with an until step
UntilFlows ==
    {<<RepeatLoop(Val(Num(ShortList)), <<Click>>, <<Js(as)>>), TypeText("x")>> :
        as \in {"x", ""}}
    \cup {<<ListUrls, EachLoop(Tpl(<<Ref("urls")>>), "u", <<Go("u")>>, <<Js("x")>>)>>}

Workflows ==
    CommandFlows \cup CaptureFlows \cup CountedFlows \cup LoopCaptureFlows \cup UntilFlows

InitWorkflow ==
    /\ now = 0
    /\ requests = NoFile
    /\ bodies = [n \in BodyNames |-> Absent]
    /\ meta = Absent
    /\ ret = [op |-> "none"]
    /\ cl = Idle
    /\ lock = NoLock
    /\ procs = [p \in Procs |-> IdleProc]
    /\ auto = NoAuto
    /\ wf \in {Start(steps, onError, autoWait) :
                steps \in Workflows, onError \in {"stop", "continue"},
                autoWait \in BOOLEAN}

NextWorkflow ==
    \/ IssueStep
    \/ EnterLoop
    \/ EndIteration
    \/ ExitLoop
    \/ \E value \in Outputs(wf.cur.cmd) : Reply("ok", value)
    \/ \E kind \in {"error", "reject"} : Reply(kind, Undefined)
    \/ \E outcome \in WaitOutcomes : AutoWaitSettles(outcome)
    \/ Finish

SpecWorkflow == InitWorkflow /\ [][NextWorkflow]_vars

----------------------------------------------------------------------------
(* Properties of the workflow engine *)

\* The arguments of the requests for a tool, in the order they were sent
ArgsSentTo(tool) ==
    LET ToTool(r) == r.tool = tool
        rs == SelectSeq(wf.sent, ToTool)
    IN  [k \in 1 .. Len(rs) |-> rs[k].args]

\* The workflow has returned and no request of a step failed
Succeeded ==
    wf.pc = "done" /\ wf.out.status = "completed" /\ ~wf.failedLeaf

\* The number of iterations a loop was asked for: the number given to
\* repeat, the length of the array given to each
Asked(f) ==
    IF f.kind = "each" THEN Len(f.items) ELSE f.step.count.v.n

\* C13: a loop in which no step fails and no until fires runs its body
\* min(N, 100) times, N the repeat count or the length of the array:
\* repeat 200 sends the request of its body 100 times.
C13_LoopsCapped ==
    /\ [][(ExitLoop /\ ~wf.failedLeaf
            /\ (Top(wf.stack).kind = "repeat" => Top(wf.stack).step.count.k = "value")) =>
                LET f == Top(wf.stack)
                IN  f.i = (IF Asked(f) > 100 THEN 100 ELSE Asked(f))]_vars
    /\ [](Succeeded =>
            /\ \A n \in RepeatCounts :
                wf.steps = <<RepeatLoop(Val(Num(n)), <<TypeText("_iteration")>>, <<>>)>> =>
                    ArgsSentTo("type") =
                        [k \in 1 .. (IF n > 100 THEN 100 ELSE n) |->
                            <<Str("q=" \o ToString(k))>>]
            /\ wf.steps[1] = ListLinks =>
                    Len(ArgsSentTo("type")) = 100)

\* C13 witness: repeat 200 has returned after 100 requests.
C13_Witness ==
    /\ Succeeded
    /\ wf.steps[1].kind = "repeat" /\ wf.steps[1].count = Val(Num(200))
    /\ Len(wf.sent) = 100

\* The each loop over a captured array whose body is `go %{element}`
GoesToEach ==
    /\ Len(wf.steps) = 2
    /\ wf.steps[1].as = "urls"
    /\ wf.steps[2].kind = "each"
    /\ wf.steps[2].steps = <<Go(IF wf.steps[2].as = "" THEN "item" ELSE wf.steps[2].as)>>

\* C14: an each loop sends the request of its body once per element, in
\* array order, the element bound to the variable named by `as` (`item`
\* without it): the navigations sent are those to the elements, in order.
C14_EachInOrder ==
    GoesToEach /\ wf.captured["urls"].t = "array" =>
        LET a == wf.captured["urls"].a
            gone == ArgsSentTo("go")
        IN  /\ Len(gone) <= Len(a)
            /\ \A k \in 1 .. Len(gone) : gone[k] = <<a[k]>>
            /\ Succeeded => Len(gone) = Len(a)

\* C14 witness: the array [a, "b c", d], three navigations, with `as` and
\* without.
C14_Witness ==
    /\ GoesToEach /\ Succeeded
    /\ wf.steps[2].as = ""
    /\ ArgsSentTo("go") = <<<<Str("a")>>, <<Str("b c")>>, <<Str("d")>>>>

\* What the steps so far have captured, with the bindings of the loops in
\* progress: the element, _index and _iteration of each, outermost first
RECURSIVE Bound(_, _, _)
Bound(stack, k, vmap) ==
    IF k > Len(stack) THEN vmap
    ELSE Bound(stack, k + 1, LoopVars(vmap, stack[k].step, stack[k].items, stack[k].i))

\* The request sent last
LastSent(w) == w.sent[Len(w.sent)]

\* A step, or an until step, sends its request
StepSent ==
    Len(wf'.sent) = Len(wf.sent) + 1 /\ wf'.by # "wait"

\* C15: the args sent for a step are the step's args with each %{name}
\* replaced by the value most recently captured under that name by an earlier
\* step (verbatim, a whole-string reference keeping the type of the value),
\* and a reference to a name never captured is left as the text %{name}.
C15_ArgsFromLatestCapture ==
    /\ [][StepSent =>
            LastSent(wf').args = substituteVars(wf'.cur.args, Bound(wf.stack, 2, wf.captured))]_vars
    /\ [](\A again \in {"x", "y"},
              first, second \in {Str("b c"), Bool(FALSE), Arr(<<Str("a"), Str("b c"), Str("d")>>)} :
            /\ wf.steps \in CaptureFlows /\ wf.steps[2].as = again
            /\ Len(wf.sent) >= 3 /\ ~wf.failedLeaf
            /\ ArgsSentTo("js") = <<<<Str("return it")>>, <<Str("return it")>>>>
            /\ wf.captured["x"] = (IF again = "x" THEN second ELSE first)
            /\ wf.captured["y"] = (IF again = "y" THEN second ELSE Undefined)
            => LET x == wf.captured["x"]
                   text(v) == IF v = Undefined THEN "%{y}"
                              ELSE IF v = Str("b c") THEN "b c"
                              ELSE IF v = Bool(FALSE) THEN "false"
                              ELSE "[\"a\",\"b c\",\"d\"]"
               IN  wf.sent[3].args =
                        <<x,
                          Str("/search?q=" \o text(x) \o "&p=" \o text(wf.captured["y"])),
                          Arr(<<x, Num(7)>>),
                          Str("%{u}")>>)
\* C16: after each iteration of a loop, every variable captured through `as`
\* by a leaf step of that iteration, directly in the body or inside a nested
\* loop, is bound in the enclosing variable map to the latest captured
\* value, and the next iteration sees it.
C16_LoopCapturesPropagate ==
    [][EndIteration =>
        LET n == Len(wf.stack)
        IN  \A name \in Top(wf.stack).caps :
                /\ wf'.stack[n - 1].vmap[name] = wf.captured[name]
                /\ (wf'.pc = "run" /\ HasStep(Top(wf'.stack)) /\ name # ItemVar(Top(wf.stack).step))
                        => Top(wf'.stack).vmap[name] = wf.captured[name]]_vars
\* The until step has returned
UntilReturns ==
    wf.isUntil /\ ~wf'.isUntil

\* C17: a loop, repeat or each, that carries an until step sends the request
\* of that step after every iteration of the body, and the loop is left when
\* the until step yields a truthy result: no iteration follows.
C17_UntilAfterEachIteration ==
    /\ [][(EndIteration /\ Top(wf.stack).step.until # <<>>) =>
            /\ Len(wf'.sent) = Len(wf.sent) + 1
            /\ wf'.by = "until"
            /\ LastSent(wf').tool = Dotted(Top(wf.stack).step.until[1].cmd)]_vars
    /\ [][(UntilReturns /\ wf'.reply.kind = "ok" /\ Truthy(wf'.reply.value)) =>
            Len(wf'.stack) = Len(wf.stack) - 1]_vars
\* The tools of the requests sent so far
Tools(w) == [k \in 1 .. Len(w.sent) |-> w.sent[k].tool]

\* The request of a step, or of an until step, settles
StepSettles ==
    wf.pc = "sent" /\ wf'.pc # "sent"

\* The commands followed by wait.load, and those followed by wait.dom
LoadCommands == {"go", "navigate", "submit", "tab.switch", "tab.new", "back", "forward"}
DomCommands == {"click", "key", "form.fill"}

\* The wait of a command that is one of those, "" for the others
WaitOfListed(cmd) ==
    IF Dotted(cmd) \in LoadCommands THEN "wait.load"
    ELSE IF Dotted(cmd) \in DomCommands THEN "wait.dom"
    ELSE ""

\* The wait of a command that is one of those or begins with one of those
\* and a dot
WaitOfFamily(cmd) ==
    LET heads == {Dotted(SubSeq(cmd, 1, k)) : k \in 1 .. Len(cmd)}
    IN  IF heads \cap LoadCommands # {} THEN "wait.load"
        ELSE IF heads \cap DomCommands # {} THEN "wait.dom"
        ELSE ""

\* Once a step has settled, the request of the wait follows, or no request
FollowedBy(waitCmd) ==
    IF waitCmd = "" THEN wf'.sent = wf.sent /\ wf'.pc # "wait"
    ELSE /\ Tools(wf') = Append(Tools(wf), waitCmd)
         /\ wf'.pc = "wait"

\* A wait is one request: when it settles the engine goes on with the steps
OneWait ==
    wf.pc = "wait" => wf'.sent = wf.sent /\ wf'.pc # "wait"

\* C18 as stated: with auto-wait enabled, each leaf step whose command is go,
\* navigate, submit, tab.switch, tab.new, back or forward is followed by
\* exactly one wait.load request, each whose command is click, key or
\* form.fill by exactly one wait.dom request, before the next step; any
\* other command is followed by no wait request.
C18_AutoWaitPerCommand ==
    [][/\ (StepSettles /\ wf.autoWait) => FollowedBy(WaitOfListed(wf.cur.cmd))
       /\ OneWait]_vars

\* C18 amended: with auto-wait enabled, each leaf step that is answered
\* without error and whose command is one of the listed ones, or begins with
\* one of them and a dot, is followed by exactly one wait request of its
\* kind before the next step; a leaf step that fails, and any other command,
\* is followed by no wait request.
C18_AutoWaitAfterSuccess ==
    [][/\ (StepSettles /\ wf.autoWait) =>
            FollowedBy(IF wf'.reply.kind = "ok" THEN WaitOfFamily(wf.cur.cmd) ELSE "")
       /\ OneWait]_vars

\* C18 witness: the first click failed and no wait followed it, the second
\* was answered and its wait.dom is on its way.
C18_Witness ==
    /\ wf.autoWait /\ wf.pc = "wait" /\ wf.failedLeaf
    /\ Tools(wf) = <<"click", "js", "click", "wait.dom">>
\* The auto-wait request settles, in whatever way
WaitSettles ==
    wf.pc = "wait" /\ wf'.pc # "wait"

\* Two states of the engine that differ at most in how the last wait settled
SameButWait(v, w) ==
    [v EXCEPT !.lastWait = "none"] = [w EXCEPT !.lastWait = "none"]

\* C19: failures of the auto-wait are swallowed: the success of the leaf
\* step, what it captured and the way the workflow goes on are the same
\* whether the wait request succeeds, is answered with an error, times out or
\* cannot connect.
C19_AutoWaitFailuresSwallowed ==
    [][WaitSettles =>
        /\ wf'.failedLeaf = wf.failedLeaf
        /\ wf'.out.failed = wf.out.failed
        /\ wf'.out.status = "running"
        /\ wf'.captured = wf.captured
        /\ \A outcome \in WaitOutcomes : SameButWait(Settled(wf, outcome), wf')]_vars

\* C19 witness: the wait after a click timed out, and the workflow has
\* completed with the next step sent what the click captured.
C19_Witness ==
    /\ wf.lastWait = "timeout" /\ Succeeded
    /\ Tools(wf) = <<"click", "wait.dom", "type">>
    /\ LastSent(wf).args = <<Str("q=ok")>>
\* The request of a step, or of an until step, fails: the reply carries an
\* error, or the request is rejected
StepFails ==
    StepSettles /\ wf'.reply.kind # "ok"

\* C20: under onError = 'stop' the first failing leaf step, at top level, in
\* a loop at any depth, or an until step, ends the workflow: executeDoSteps
\* returns status 'failed' with the error of that step, and no request is
\* sent after it.
C20_StopOnFirstFailure ==
    /\ [][(StepFails /\ wf.onError = "stop") =>
            /\ wf'.pc = "done"
            /\ wf'.out.status = "failed"
            /\ wf'.out.error = [how |-> wf'.reply.kind, request |-> Len(wf.sent)]
            /\ wf'.sent = wf.sent]_vars
    /\ [][wf.pc = "done" => wf'.sent = wf.sent]_vars
----------------------------------------------------------------------------
(* extractStepOutput: what a step with `as` captures from a reply *)

MaxContents == 2

\* The values the texts of the replies are the JSON of
JsonValues ==
    {Bool(TRUE), Bool(FALSE), Num(42), Num(0), Null, Str("b c"),
     Arr(<<Str("a"), Str("b c"), Str("d")>>)}

\* The texts of the replies: JSON, text that is not JSON, and the empty text
Texts == {JsonStringify(v) : v \in JsonValues} \cup {"hello", "{oops", ""}

\* JSON.parse(text): the value, or the throw
JsonParse(text) ==
    IF \E v \in JsonValues : JsonStringify(v) = text
    THEN [ok |-> TRUE, v |-> CHOOSE v \in JsonValues : JsonStringify(v) = text]
    ELSE [ok |-> FALSE, v |-> Undefined]

\* An element of result.content: { type: 'text', text } or one without text
TextContent(text) == [type |-> "text", text |-> text]
ImageContent == [type |-> "image", text |-> ""]
ContentItems == {TextContent(text) : text \in Texts} \cup {ImageContent}

\* resp.result: missing, without content, or with a content array
NoResult == [has |-> FALSE, hasContent |-> FALSE, content |-> <<>>]
Results ==
    {NoResult, [has |-> TRUE, hasContent |-> FALSE, content |-> <<>>]}
    \cup {[has |-> TRUE, hasContent |-> TRUE, content |-> c] :
            c \in UNION {[1 .. n -> ContentItems] : n \in 0 .. MaxContents}}

\* A reply without error: { result?, value? }
Responses ==
    {[result |-> r, value |-> v] : r \in Results, v \in {Undefined, Null, Str("direct")}}

\* What extractStepOutput returns, and which return statement returned it
Extracted(from, v) == [from |-> from, v |-> v]

\* resp.result?.content?.[0]?.text
FirstText(resp) ==
    IF resp.result.has /\ resp.result.hasContent /\ Len(resp.result.content) > 0
    THEN resp.result.content[1].text
    ELSE ""

\* Without a text that parses, the whole reply whatever else it carries
extractStepOutputOrReply(resp) ==
    LET text == FirstText(resp)
    IN  IF text # ""
        THEN IF JsonParse(text).ok THEN Extracted("json", JsonParse(text).v)
             ELSE Extracted("text", Str(text))
        ELSE Extracted("reply", resp)

\* function extractStepOutput(resp)
extractStepOutput(resp) ==
    LET text == FirstText(resp)
    IN  IF text # ""
        THEN IF JsonParse(text).ok THEN Extracted("json", JsonParse(text).v)
             ELSE Extracted("text", Str(text))
        ELSE IF resp.value # Undefined THEN Extracted("value", resp.value)
        ELSE IF resp.result.has THEN Extracted("result", resp.result)
        ELSE Extracted("reply", resp)

\* A reply has arrived for a step with `as`
InitExtract ==
    /\ now = 0
    /\ requests = NoFile
    /\ bodies = [n \in BodyNames |-> Absent]
    /\ meta = Absent
    /\ ret = [op |-> "none"]
    /\ cl = Idle
    /\ lock = NoLock
    /\ procs = [p \in Procs |-> IdleProc]
    /\ auto = NoAuto
    /\ wf \in {[pc |-> "reply", resp |-> resp, output |-> Extracted("none", Undefined)] :
                resp \in Responses}

\* const output = extractStepOutput(resp); vars[step.as] = output
CaptureOutput ==
    /\ wf.pc = "reply"
    /\ wf' = [wf EXCEPT !.pc = "captured", !.output = extractStepOutput(wf.resp)]
    /\ UNCHANGED <<now, requests, bodies, meta, ret, cl, lock, procs, auto>>

NextExtract == CaptureOutput

SpecExtract == InitExtract /\ [][NextExtract]_vars

\* The reply carries a single text content
SingleText(resp) ==
    /\ resp.result.has /\ resp.result.hasContent
    /\ Len(resp.result.content) = 1
    /\ resp.result.content[1].type = "text"

\* The output is the value v, returned for the reason `from`
Captures(from, v) ==
    wf.output.from = from /\ wf.output.v = v

\* C21 as stated: the captured value is the parsed JSON value when the reply
\* carries a single text content whose text parses as JSON, the raw text
\* when that text does not parse, and the whole reply object in every other
\* case.
C21_ReplyExtraction ==
    wf.pc = "captured" =>
        IF SingleText(wf.resp)
        THEN LET text == wf.resp.result.content[1].text
             IN  IF JsonParse(text).ok THEN Captures("json", JsonParse(text).v)
                 ELSE Captures("text", Str(text))
        ELSE Captures("reply", wf.resp)

\* C21 amended: the captured value is the parsed JSON value when the first
\* content of the reply has a text that is not empty and parses as JSON, the
\* raw text when that text does not parse, and in every other case the
\* `value` of the reply when it has one, else its `result` when it has one,
\* else the whole reply object.
C21_ReplyExtractionWithFallbacks ==
    wf.pc = "captured" =>
        LET r == wf.resp.result
            texts == {text \in Texts \ {""} :
                        r.has /\ r.hasContent /\ Len(r.content) > 0 /\ r.content[1].text = text}
        IN  /\ \A text \in texts :
                    IF JsonParse(text).ok THEN Captures("json", JsonParse(text).v)
                    ELSE Captures("text", Str(text))
            /\ texts = {} =>
                    CASE wf.resp.value # Undefined -> Captures("value", wf.resp.value)
                      [] wf.resp.value = Undefined /\ r.has -> Captures("result", r)
                      [] OTHER -> Captures("reply", wf.resp)

\* C21 witness: a reply whose first content has no text and whose second
\* has one, without `value`: its `result` is captured.
C21_Witness ==
    /\ wf.pc = "captured"
    /\ wf.resp.value = Undefined
    /\ wf.resp.result.content = <<ImageContent, TextContent("42")>>
    /\ wf.output.from = "result"
----------------------------------------------------------------------------
(* sendDoRequest: one tool request on the socket of the daemon *)

MaxChunk == 2
MaxBuf == 3

\* What the daemon can write: a JSON text, text that is not JSON, a blank,
\* the end of a line
Pieces == {"{}", "oops", " ", "\n"}

DaemonChunks ==
    UNION {[1 .. n -> Pieces] : n \in 1 .. MaxChunk}

\* buf.split("\n"): the complete lines, and the rest (lines.pop())
RECURSIVE SplitBuf(_, _, _)
SplitBuf(buf, line, lines) ==
    IF Len(buf) = 0 THEN [lines |-> lines, rest |-> line]
    ELSE IF buf[1] = "\n" THEN SplitBuf(Tail(buf), <<>>, Append(lines, line))
    ELSE SplitBuf(Tail(buf), Append(line, buf[1]), lines)

\* line.trim()
NotBlank(piece) == piece # " "
Trimmed(line) == SelectSeq(line, NotBlank)

\* JSON.parse(line) returns
ParsesLine(line) == Trimmed(line) = <<"{}">>

\* The promise settles once: resolve and reject after that do nothing
SettleOnce(r, outcome, how) ==
    IF r.settled = "none" THEN [r EXCEPT !.settled = outcome, !.how = how] ELSE r

RECURSIVE OnLines(_, _)
\* for (const line of lines): skip the blank ones; sock.end() and resolve,
\* or sock.end() and reject
OnLines(r, lines) ==
    IF Len(lines) = 0 THEN r
    ELSE IF Trimmed(lines[1]) = <<>> THEN OnLines(r, Tail(lines))
    ELSE LET ended == [r EXCEPT !.conn = IF @ = "open" THEN "ended" ELSE @]
             settled == IF ParsesLine(lines[1])
                        THEN SettleOnce(ended, "resolved", "reply")
                        ELSE SettleOnce(ended, "rejected", "json")
         IN  OnLines(settled, Tail(lines))

\* sock.on("close", () => clearTimeout(timeoutId))
OnClose(r) ==
    [r EXCEPT !.conn = "closed", !.timer = IF @ = "armed" THEN "cleared" ELSE @]

\* new Promise(...): net.createConnection, the handlers, setTimeout(30000)
InitRequest ==
    /\ now = 0
    /\ requests = NoFile
    /\ bodies = [n \in BodyNames |-> Absent]
    /\ meta = Absent
    /\ ret = [op |-> "none"]
    /\ cl = Idle
    /\ lock = NoLock
    /\ procs = [p \in Procs |-> IdleProc]
    /\ auto = NoAuto
    /\ wf = [pc |-> "request", conn |-> "connecting", written |-> FALSE,
             timer |-> "armed", buf |-> <<>>, settled |-> "none", how |-> "none"]

\* The connection is made: the request is written
RequestConnected ==
    /\ wf.conn = "connecting"
    /\ wf' = [wf EXCEPT !.conn = "open", !.written = TRUE]
    /\ UNCHANGED <<now, requests, bodies, meta, ret, cl, lock, procs, auto>>

\* sock.on("data"): the daemon has written a chunk
RequestData(chunk) ==
    /\ wf.conn \in {"open", "ended"}
    /\ LET split == SplitBuf(wf.buf \o chunk, <<>>, <<>>)
       IN  /\ Len(split.rest) <= MaxBuf
           /\ wf' = OnLines([wf EXCEPT !.buf = split.rest], split.lines)
    /\ UNCHANGED <<now, requests, bodies, meta, ret, cl, lock, procs, auto>>

\* sock.on("error"): no socket, connection refused, or any other error
RequestError ==
    /\ wf.conn \in {"connecting", "open", "ended"}
    /\ wf' = SettleOnce([wf EXCEPT !.conn = "errored"], "rejected", "socket")
    /\ UNCHANGED <<now, requests, bodies, meta, ret, cl, lock, procs, auto>>

\* The 30 seconds are over: sock.destroy() and reject
RequestTimeout ==
    /\ wf.timer = "armed"
    /\ wf' = SettleOnce([wf EXCEPT !.timer = "fired", !.conn = "destroyed"],
                        "rejected", "timeout")
    /\ UNCHANGED <<now, requests, bodies, meta, ret, cl, lock, procs, auto>>

\* sock.on("close"): after an error, after destroy(), or because the daemon
\* has closed the connection, whether or not the client has ended its side
RequestClose ==
    /\ wf.conn \in {"open", "ended", "errored", "destroyed"}
    /\ wf' = OnClose(wf)
    /\ UNCHANGED <<now, requests, bodies, meta, ret, cl, lock, procs, auto>>

NextRequest ==
    \/ RequestConnected
    \/ \E chunk \in DaemonChunks : RequestData(chunk)
    \/ RequestError
    \/ RequestTimeout
    \/ RequestClose

SpecRequest == InitRequest /\ [][NextRequest]_vars

\* C22: every tool request settles: it resolves with the reply, or rejects
\* with a socket error, an invalid-JSON error or the 30-second timeout,
\* whatever the daemon does, closing the connection without a reply
\* included: a request that has not settled has its timeout pending, and
\* one that has settled has settled in one of these ways.
C22_RequestSettles ==
    /\ wf.settled = "none" => wf.timer = "armed"
    /\ wf.settled = "resolved" => wf.how = "reply"
    /\ wf.settled = "rejected" => wf.how \in {"socket", "json", "timeout"}
----------------------------------------------------------------------------
(* The bridge daemon: the request registry between the clients' sockets and
   the one pipe to the extension *)

NumConns == 2
MaxForwarded == 3

Conns == 1 .. NumConns

\* The ids the clients choose; two connections may choose the same
ClientIds == {"a", "b"}

\* The slots of the registry, in the order the counter hands them out
Slots == 1 .. MaxForwarded

\* <prefix>-<monotonic-counter>
UpstreamId(n) == "surf-" \o ToString(n)

\* A registry entry { clientConn, originalId, deadline, tool }: none, pending
\* a reply, or kept after its deadline has passed
NoPending == [state |-> "none", conn |-> 0, originalId |-> "", upstreamId |-> ""]

\* The reply goes to the client under the id it travelled upstream with
RestoredNot(entry) ==
    entry.upstreamId

\* The original id is restored on the reply
Restored(entry) ==
    entry.originalId

\* The deadline leaves the entry as it was: a late reply finds it pending
ExpiredStillPending(entry) ==
    [entry EXCEPT !.state = "pending"]

\* On expiry the entry is kept, so that a late upstream reply is discarded
Expired(entry) ==
    [entry EXCEPT !.state = "expired"]

\* A reply { type: "tool_response", id, result | error } written to a client
ToolReply(id, kind, slot) == [id |-> id, kind |-> kind, slot |-> slot]

\* The reply is written on the connection of the entry
Written(w, entry, kind, slot) ==
    [w EXCEPT !.delivered[entry.conn] = Append(@, ToolReply(Restored(entry), kind, slot))]

InitDaemon ==
    /\ now = 0
    /\ requests = NoFile
    /\ bodies = [n \in BodyNames |-> Absent]
    /\ meta = Absent
    /\ ret = [op |-> "none"]
    /\ cl = Idle
    /\ lock = NoLock
    /\ procs = [p \in Procs |-> IdleProc]
    /\ auto = NoAuto
    /\ wf = [pc |-> "daemon",
             open |-> [c \in Conns |-> TRUE],
             asked |-> [c \in Conns |-> {}],
             counter |-> 0,
             registry |-> [n \in Slots |-> NoPending],
             upstream |-> {},
             forwarded |-> [n \in Slots |-> NoPending],
             delivered |-> [c \in Conns |-> <<>>]]

\* A client writes a request: the daemon rewrites its id, registers it and
\* forwards it upstream
ClientRequest(c, id) ==
    /\ wf.open[c]
    /\ id \notin wf.asked[c]
    /\ wf.counter < MaxForwarded
    /\ LET n == wf.counter + 1
           entry == [state |-> "pending", conn |-> c, originalId |-> id,
                     upstreamId |-> UpstreamId(n)]
       IN  wf' = [wf EXCEPT !.asked[c] = @ \cup {id},
                            !.counter = n,
                            !.registry[n] = entry,
                            !.forwarded[n] = entry,
                            !.upstream = @ \cup {n}]
    /\ UNCHANGED <<now, requests, bodies, meta, ret, cl, lock, procs, auto>>

\* The extension replies: the entry is looked up by upstream id; the reply
\* is delivered, or discarded when the entry is gone or past its deadline
UpstreamReply(n) ==
    /\ n \in wf.upstream
    /\ LET entry == wf.registry[n]
           taken == [wf EXCEPT !.upstream = @ \ {n}, !.registry[n] = NoPending]
       IN  wf' = IF entry.state = "pending" /\ wf.open[entry.conn]
                 THEN Written(taken, entry, "result", n)
                 ELSE taken
    /\ UNCHANGED <<now, requests, bodies, meta, ret, cl, lock, procs, auto>>

\* The deadline of a pending request passes: a timeout error reply
RequestDeadline(n) ==
    /\ wf.registry[n].state = "pending"
    /\ wf' = Written([wf EXCEPT !.registry[n] = Expired(@)],
                     wf.registry[n], "timeout", n)
    /\ UNCHANGED <<now, requests, bodies, meta, ret, cl, lock, procs, auto>>

\* An entry kept after its deadline is dropped in the end
ForgetExpired(n) ==
    /\ wf.registry[n].state = "expired"
    /\ wf' = [wf EXCEPT !.registry[n] = NoPending]
    /\ UNCHANGED <<now, requests, bodies, meta, ret, cl, lock, procs, auto>>

\* A client disconnects: its registry entries are dropped
ClientDisconnect(c) ==
    /\ wf.open[c]
    /\ wf' = [wf EXCEPT !.open[c] = FALSE,
                        !.registry = [n \in Slots |->
                                        IF @[n].conn = c THEN NoPending ELSE @[n]]]
    /\ UNCHANGED <<now, requests, bodies, meta, ret, cl, lock, procs, auto>>

RECURSIVE Aborted(_, _)
\* Every pending request is answered "native host disconnected"
Aborted(w, n) ==
    IF n > MaxForwarded THEN w
    ELSE Aborted(IF w.registry[n].state = "pending"
                 THEN Written(w, w.registry[n], "disconnected", n)
                 ELSE w,
                 n + 1)

\* Upstream EOF: the requests in flight are aborted, the registry is empty;
\* what was on the old pipe is never answered
UpstreamEOF ==
    /\ wf.upstream # {}
    /\ wf' = [Aborted(wf, 1) EXCEPT !.registry = [n \in Slots |-> NoPending],
                                    !.upstream = {}]
    /\ UNCHANGED <<now, requests, bodies, meta, ret, cl, lock, procs, auto>>

NextDaemon ==
    \/ \E c \in Conns, id \in ClientIds : ClientRequest(c, id)
    \/ \E n \in Slots : UpstreamReply(n)
    \/ \E n \in Slots : RequestDeadline(n)
    \/ \E n \in Slots : ForgetExpired(n)
    \/ \E c \in Conns : ClientDisconnect(c)
    \/ UpstreamEOF

SpecDaemon == InitDaemon /\ [][NextDaemon]_vars

\* The replies delivered to connection c under the id `id`
RepliesTo(c, id) ==
    {k \in 1 .. Len(wf.delivered[c]) : wf.delivered[c][k].id = id}

\* The request (c, id) is still awaited
Awaited(c, id) ==
    \E n \in Slots :
        /\ wf.registry[n].state = "pending"
        /\ wf.registry[n].conn = c /\ wf.registry[n].originalId = id

\* C23: for every request a client has written, exactly one reply is
\* delivered to that client or its connection is closed, whatever the order
\* of upstream replies, timeouts, upstream EOF and disconnects; never two
\* replies for one id: a late upstream reply after the timeout is discarded.
C23_ExactlyOneReply ==
    \A c \in Conns : \A id \in wf.asked[c] :
        /\ Cardinality(RepliesTo(c, id)) <= 1
        /\ wf.open[c] => (Awaited(c, id) <=> RepliesTo(c, id) = {})

\* C23 witness: a request was answered by the timeout, its upstream reply
\* came late and was discarded, the connection is still open.
C23_Witness ==
    \E c \in Conns, n \in Slots :
        /\ wf.open[c]
        /\ wf.forwarded[n].conn = c
        /\ n \notin wf.upstream
        /\ wf.delivered[c] = <<ToolReply(wf.forwarded[n].originalId, "timeout", n)>>

\* C24: every reply is delivered on the connection that sent the request and
\* carries the id the client chose, never the rewritten upstream id, also
\* when two connections have requests in flight under the same id.
C24_OwnIdSpace ==
    \A c \in Conns : \A k \in 1 .. Len(wf.delivered[c]) :
        LET reply == wf.delivered[c][k]
        IN  /\ wf.forwarded[reply.slot].conn = c
            /\ reply.id = wf.forwarded[reply.slot].originalId
            /\ reply.id \in wf.asked[c]
            /\ \A n \in Slots : reply.id # UpstreamId(n)

\* C24 witness: both connections asked under the id "a", and each has the
\* reply to its own request.
C24_Witness ==
    /\ \A c \in Conns : "a" \in wf.asked[c]
    /\ \A c \in Conns :
            \E n \in Slots : wf.delivered[c] = <<ToolReply("a", "result", n)>>
----------------------------------------------------------------------------
(* The EXECUTE_SCROLL handler of the extension: the debugger first, the
   scripting capability when the debugger fails *)

MaxScrollY == 500

\* message.tabId (0 when the message has none), deltaX, deltaY
TabIds == {0, 7, 123}
Deltas == {0, 100, 300}

\* The commands the handler sends to the debugger, in order
DebuggerCommands == <<"attach", "Runtime.evaluate">>

\* What window.scrollBy leaves: { scrollX, scrollY, scrolled }
ScrollResult(x, y, scrolled) == [scrollX |-> x, scrollY |-> y, scrolled |-> scrolled]

\* The page scrolls by the deltas, as far as it goes
Scrolled(dx, dy) ==
    ScrollResult(dx, IF dy > MaxScrollY THEN MaxScrollY ELSE dy, dx # 0 \/ dy # 0)

\* The failure of the debugger is the failure of the handler
AfterDebuggerFailsThrow(w) ==
    [w EXCEPT !.pc = "done", !.out = [kind |-> "error", error |-> "debugger", value |-> Scrolled(0, 0)]]

\* The handler catches the failure of the debugger and goes on to scripting
AfterDebuggerFails(w) ==
    [w EXCEPT !.pc = "scripting"]

InitScroll ==
    /\ now = 0
    /\ requests = NoFile
    /\ bodies = [n \in BodyNames |-> Absent]
    /\ meta = Absent
    /\ ret = [op |-> "none"]
    /\ cl = Idle
    /\ lock = NoLock
    /\ procs = [p \in Procs |-> IdleProc]
    /\ auto = NoAuto
    /\ wf \in {[pc |-> "received", tabId |-> tabId, deltaX |-> dx, deltaY |-> dy,
                calls |-> <<>>, failed |-> 0,
                out |-> [kind |-> "none", error |-> "", value |-> Scrolled(0, 0)]] :
                tabId \in TabIds, dx \in Deltas, dy \in Deltas}

\* handleMessage({ type: "EXECUTE_SCROLL", ... }): a message without tabId
\* is rejected
ScrollReceived ==
    /\ wf.pc = "received"
    /\ wf' = IF wf.tabId = 0
             THEN [wf EXCEPT !.pc = "done",
                             !.out = [kind |-> "error", error |-> "No tabId provided",
                                      value |-> Scrolled(0, 0)]]
             ELSE [wf EXCEPT !.pc = "debugger"]
    /\ UNCHANGED <<now, requests, bodies, meta, ret, cl, lock, procs, auto>>

\* chrome.debugger: the next command is answered; the answer of
\* Runtime.evaluate is the result of the handler
DebuggerAnswers ==
    /\ wf.pc = "debugger"
    /\ LET cmd == DebuggerCommands[Len(wf.calls) + 1]
           called == [wf EXCEPT !.calls = Append(@, cmd)]
       IN  wf' = IF cmd = "Runtime.evaluate"
                 THEN [called EXCEPT !.pc = "done",
                                     !.out = [kind |-> "result", error |-> "",
                                              value |-> Scrolled(wf.deltaX, wf.deltaY)]]
                 ELSE called
    /\ UNCHANGED <<now, requests, bodies, meta, ret, cl, lock, procs, auto>>

\* chrome.debugger: the next command fails (restricted origin, policy,
\* attach refused)
DebuggerFails ==
    /\ wf.pc = "debugger"
    /\ LET cmd == DebuggerCommands[Len(wf.calls) + 1]
       IN  wf' = AfterDebuggerFails([wf EXCEPT !.calls = Append(@, cmd), !.failed = @ + 1])
    /\ UNCHANGED <<now, requests, bodies, meta, ret, cl, lock, procs, auto>>

\* chrome.scripting.executeScript({ func: scrollBy ... }) returns
ScriptingAnswers ==
    /\ wf.pc = "scripting"
    /\ wf' = [wf EXCEPT !.pc = "done", !.calls = Append(@, "executeScript"),
                        !.out = [kind |-> "result", error |-> "",
                                 value |-> Scrolled(wf.deltaX, wf.deltaY)]]
    /\ UNCHANGED <<now, requests, bodies, meta, ret, cl, lock, procs, auto>>

\* The script cannot be injected either
ScriptingFails ==
    /\ wf.pc = "scripting"
    /\ wf' = [wf EXCEPT !.pc = "done", !.calls = Append(@, "executeScript"),
                        !.out = [kind |-> "error", error |-> "scripting",
                                 value |-> Scrolled(0, 0)]]
    /\ UNCHANGED <<now, requests, bodies, meta, ret, cl, lock, procs, auto>>

NextScroll ==
    \/ ScrollReceived
    \/ DebuggerAnswers
    \/ DebuggerFails
    \/ ScriptingAnswers
    \/ ScriptingFails

SpecScroll == InitScroll /\ [][NextScroll]_vars

\* How often the handler has called the scripting capability
ScriptCalls ==
    Len(SelectSeq(wf.calls, LAMBDA call : call = "executeScript"))

\* C25: for an EXECUTE_SCROLL message with a tabId, when every debugger
\* command fails the handler runs the scroll through
\* chrome.scripting.executeScript and returns the result of that script, not
\* an error; a message without tabId is rejected with 'No tabId provided'
\* and calls neither the debugger nor scripting.
C25_ScrollFallsBack ==
    /\ [][(ScriptingAnswers /\ wf.failed > 0) =>
            /\ wf.tabId # 0
            /\ wf'.out.kind = "result"
            /\ wf'.out.value.scrollX = wf.deltaX
            /\ wf'.out.value.scrolled = (wf.deltaX # 0 \/ wf.deltaY # 0)]_vars
    /\ [](wf.pc = "done" /\ wf.tabId # 0 /\ wf.failed > 0 =>
            ScriptCalls = 1 /\ wf.out.error # "debugger")
    /\ [](wf.pc = "done" /\ wf.tabId = 0 =>
            wf.calls = <<>> /\ wf.out.kind = "error" /\ wf.out.error = "No tabId provided")

\* C25 witness: the debugger refused to attach, the script scrolled the
\* page of tab 123 by 300.
C25_Witness ==
    /\ wf.pc = "done" /\ wf.tabId = 123
    /\ wf.calls = <<"attach", "executeScript">>
    /\ wf.failed = 1
    /\ wf.out = [kind |-> "result", error |-> "", value |-> ScrollResult(0, 300, TRUE)]

----------------------------------------------------------------------------
(* Capture and maintenance interleaved on one base directory *)

\* A capture in progress: the hashes storeBody returned and appendEntry has
\* not written yet; the entry of the latest appendEntry that returned, and
\* whether it was appended after the cleanup() in progress read the file.
NoCapture ==
    [pc |-> "capture", stage |-> "idle", req |-> Absent, res |-> Absent,
     done |-> NullEntry, unread |-> FALSE]

InitRace ==
    /\ now = 0
    /\ requests = NoFile
    /\ bodies = [n \in BodyNames |-> Absent]
    /\ meta = Absent
    /\ ret = [op |-> "none"]
    /\ cl = Idle
    /\ lock = NoLock
    /\ procs = [p \in Procs |-> IdleProc]
    /\ auto = NoAuto
    /\ wf = NoCapture

\* The storeBody calls of a capture (Absent: no body of that kind); they
\* take no lock and look at no cleanup in progress.
CaptureStore(reqBody, resBody) ==
    LET nreq == BodyName(Hash(reqBody), TRUE)
        nres == BodyName(Hash(resBody), FALSE)
        b1 == IF reqBody # Absent /\ bodies[nreq] = Absent
              THEN [bodies EXCEPT ![nreq] = reqBody] ELSE bodies
        b2 == IF resBody # Absent /\ b1[nres] = Absent
              THEN [b1 EXCEPT ![nres] = resBody] ELSE b1
    IN  /\ wf.stage = "idle"
        /\ Len(Entries(requests.content)) < MaxEntries
        /\ bodies' = b2
        /\ wf' = [wf EXCEPT !.stage = "stored",
                            !.req = IF reqBody # Absent THEN Hash(reqBody) ELSE Absent,
                            !.res = IF resBody # Absent THEN Hash(resBody) ELSE Absent]
        /\ UNCHANGED <<now, requests, meta, ret, cl, lock, procs, auto>>

\* The appendEntry of the capture, with the hashes storeBody returned; the
\* append goes to whatever requests.jsonl is at that moment.
CaptureAppend ==
    LET e == FullEntry(Entry(Absent, Absent, wf.req, wf.res))
    IN  /\ wf.stage = "stored"
        /\ requests' = AppendLine(requests, e)
        /\ wf' = [wf EXCEPT !.stage = "idle", !.req = Absent, !.res = Absent,
                            !.done = e, !.unread = cl.pc # "idle"]
        /\ UNCHANGED <<now, bodies, meta, ret, cl, lock, procs, auto>>

\* cleanup() starts, in this process between two awaits or in another one
RaceCleanupBegin(ttl, maxSize) ==
    /\ CleanupBegin(ttl, maxSize)
    /\ wf' = [wf EXCEPT !.unread = FALSE]
    /\ UNCHANGED auto

NextRace ==
    \/ Tick /\ UNCHANGED <<auto, wf>>
    \/ \E resBody \in Contents : CaptureStore(Absent, resBody)
    \/ CaptureAppend
    \/ \E ttl \in Ttls, maxSize \in Caps : RaceCleanupBegin(ttl, maxSize)
    \/ CleanupUnlink /\ UNCHANGED <<auto, wf>>
    \/ CleanupWriteTmp /\ UNCHANGED <<auto, wf>>
    \/ CleanupRename /\ UNCHANGED <<auto, wf>>
    \/ CleanupMeta /\ UNCHANGED <<auto, wf>>
    \/ \E before \in Times \cup {Absent} : Clear(before) /\ UNCHANGED <<auto, wf>>

SpecRace == InitRace /\ [][NextRace]_vars

\* C26: with capture and maintenance interleaved on one base directory,
\* every hash an entry of requests.jsonl names still has its body file,
\* also when a cleanup() or clear() ran between the storeBody of a capture
\* and its appendEntry (looked at when no cleanup() is half way).
C26_BodiesSurviveMaintenance ==
    (wf.pc = "capture" /\ cl.pc = "idle") => Named \subseteq Files(bodies)

\* How many times e is among the entries
Occurs(e, entries) ==
    Cardinality({i \in 1 .. Len(entries) : entries[i] = e})

\* C27: an entry whose appendEntry has returned leaves requests.jsonl only
\* by a cleanup that read it and dropped it (past the TTL or over the size
\* cap) or by a clear whose filter it matches.
C27_NoCompletedAppendLost ==
    [][(wf.pc = "capture" /\ wf.done # NullEntry) =>
            LET e == wf.done
                lost == Occurs(e, LogEntries) - Occurs(e, LogEntries')
            IN  lost > 0 =>
                    \/ cl.pc = "rename" /\ ~wf.unread
                    \/ \E before \in Times \cup {Absent} :
                         /\ Clear(before)
                         /\ before \in {Absent, 0} \/ e.timestamp < before]_vars

----------------------------------------------------------------------------
(* Who removes .lock *)

\* The step is the release of p (closeSync, unlinkSync of the finally block)
Releases(p) ==
    procs[p].pc = "release" /\ procs'[p].pc = "idle"

\* The step is p's unlinkSync of a lock it found stale
BreaksStale(p) ==
    procs[p].pc = "unlinkStale" /\ procs'[p].pc = "reopen"

\* C28: .lock is removed only by the process that holds it (it created the
\* file in place and has not released it) or by a process for which the
\* file in place is older than 5 seconds; a release never removes a lock
\* file another process created, and a call that appended without the lock
\* removes none.
C28_LockRemovedByHolderOrStale ==
    [][(lock.exists /\ ~lock'.exists) =>
        \E p \in Procs :
            \/ Releases(p) /\ HoldsLock(p)
            \/ BreaksStale(p) /\ now - lock.mtime > LOCK_STALE_MS]_vars

----------------------------------------------------------------------------
(* The write chain of appendEntry inside one process *)

MaxChainCalls == 4

\* let writeLock = Promise.resolve(): 0 stands for the promise resolved at
\* load time, k for the promise made by the k-th call.
InitChain ==
    /\ now = 0
    /\ requests = NoFile
    /\ bodies = [n \in BodyNames |-> Absent]
    /\ meta = Absent
    /\ ret = [op |-> "none"]
    /\ cl = Idle
    /\ lock = NoLock
    /\ procs = [p \in Procs |-> IdleProc]
    /\ auto = NoAuto
    /\ wf = [pc |-> "chain", writeLock |-> 0, releasePromise |-> <<>>,
             status |-> <<>>, released |-> <<>>]

\* The write threw and the promise of the call was left unresolved
ReleasedIfWritten(ok) ==
    ok

\* finally { release(); }: the promise is resolved however the try block ends
ReleasedAfter(ok) ==
    TRUE

\* appendEntry(entry) up to its await: const releasePromise = writeLock;
\* writeLock = new Promise(r => { release = r; }); await releasePromise
ChainCall ==
    LET k == Len(wf.status) + 1
    IN  /\ k <= MaxChainCalls
        /\ wf' = [wf EXCEPT !.writeLock = k,
                            !.releasePromise = Append(@, wf.writeLock),
                            !.status = Append(@, "waiting"),
                            !.released = Append(@, FALSE)]
        /\ UNCHANGED <<now, requests, bodies, meta, ret, cl, lock, procs, auto>>

\* The promise the k-th call awaits is resolved
Resumable(k) ==
    IF wf.releasePromise[k] = 0 THEN TRUE ELSE wf.released[wf.releasePromise[k]]

\* The k-th call goes on after its await: the try block, in which
\* fs.appendFileSync writes the line or throws, and the finally block
ChainResume(k, ok) ==
    /\ wf.status[k] = "waiting"
    /\ Resumable(k)
    /\ requests' = IF ok
                   THEN AppendLine(requests, FullEntry(Entry(k, Absent, Absent, Absent)))
                   ELSE requests
    /\ wf' = [wf EXCEPT !.status[k] = IF ok THEN "returned" ELSE "threw",
                        !.released[k] = ReleasedAfter(ok)]
    /\ UNCHANGED <<now, bodies, meta, ret, cl, lock, procs, auto>>

NextChain ==
    \/ Tick /\ UNCHANGED <<auto, wf>>
    \/ ChainCall
    \/ \E k \in 1 .. Len(wf.status), ok \in BOOLEAN : ChainResume(k, ok)

SpecChain == InitChain /\ [][NextChain]_vars

\* C29: concurrent appendEntry calls of one process write their lines in
\* call order (a line per call that returned, none for a call that threw
\* or still waits), and a call whose write threw has released the chain:
\* the earliest call still waiting can always go on.
C29_WriteChainInCallOrder ==
    wf.pc = "chain" =>
        /\ \A i \in 1 .. Len(LogEntries), j \in 1 .. Len(LogEntries) :
                i < j => LogEntries[i].id < LogEntries[j].id
        /\ \A k \in 1 .. Len(wf.status) :
                (wf.status[k] = "returned") = (Count(k) = 1)
        /\ \A k \in 1 .. Len(wf.status) :
                (/\ wf.status[k] = "waiting"
                 /\ \A j \in 1 .. (k - 1) : wf.status[j] # "waiting")
                    => Resumable(k)

\* C29 witness: the first of four calls threw, the three calls made while
\* it was waiting have written their lines in call order.
C29_Witness ==
    /\ wf.pc = "chain"
    /\ wf.status = <<"threw", "returned", "returned", "returned">>
    /\ Len(LogEntries) = 3
    /\ LogEntries[1].id = 2 /\ LogEntries[2].id = 3 /\ LogEntries[3].id = 4

----------------------------------------------------------------------------
(* The id and the timestamp of an appended entry *)

\* Codes of a field that is present and falsy: null, "" and 0 (Absent is
\* the field left out)
NullField == -2
EmptyField == -3
Falsy == {Absent, NullField, EmptyField, 0}

\* An id the caller chose
CallerId == 7

GivenEntries ==
    {Entry(id, ts, Absent, Absent) :
        id \in {Absent, NullField, EmptyField, 0, CallerId},
        ts \in {Absent, NullField, EmptyField, 0, TickMs}}

\* Date.now() is past 0
InitIds ==
    /\ now = TickMs
    /\ requests = NoFile
    /\ bodies = [n \in BodyNames |-> Absent]
    /\ meta = Absent
    /\ ret = [op |-> "none"]
    /\ cl = Idle
    /\ lock = NoLock
    /\ procs = [p \in Procs |-> IdleProc]
    /\ auto = NoAuto
    /\ wf = [pc |-> "ids", entry |-> NullEntry, out |-> NullEntry]

\* appendEntry(entry) / appendEntrySync(entry): fullEntry is written and
\* returned
AppendGiven(entry) ==
    /\ AppendEntry(entry)
    /\ wf' = [pc |-> "ids", entry |-> entry, out |-> FullEntry(entry)]
    /\ UNCHANGED auto

\* The clock moves on; requests.jsonl is started again when it is full.
NextIds ==
    \/ TickTo(MaxLockClock * TickMs) /\ UNCHANGED <<auto, wf>>
    \/ \E entry \in GivenEntries : AppendGiven(entry)
    \/ Clear(Absent) /\ UNCHANGED <<auto, wf>>

SpecIds == InitIds /\ [][NextIds]_vars

\* C30: the entry written and returned has an id and a timestamp: the
\* caller's where the caller gave one, a generated id and the time of the
\* call otherwise, also when the field is present but null, empty or 0.
C30_IdAndTimestampAssigned ==
    (wf.pc = "ids" /\ ret.op = "appendEntry") =>
        /\ wf.out = LogEntries[Len(LogEntries)]
        /\ wf.out.id \notin Falsy
        /\ wf.out.timestamp \notin Falsy
        /\ wf.entry.id \notin Falsy => wf.out.id = wf.entry.id
        /\ wf.entry.timestamp \notin Falsy => wf.out.timestamp = wf.entry.timestamp
        /\ wf.entry.timestamp \in Falsy => wf.out.timestamp <= now

----------------------------------------------------------------------------
(* clear with its two criteria *)

MaxLog == 2

Urls == {"https://a.test/x", "https://b.test/", "not a url"}

\* function getOriginFromUrl(url): new URL(url).origin, null when the
\* constructor throws ("null" stands for null, which no origin given equals)
getOriginFromUrl(url) ==
    CASE url = "https://a.test/x" -> "https://a.test"
      [] url = "https://b.test/" -> "https://b.test"
      [] OTHER -> "null"

\* Not given: before (Absent) and origin ("")
NoOrigin == ""
Befores == {Absent} \cup {t * TickMs : t \in 0 .. 2}
Origins == {NoOrigin, "https://a.test", "https://c.test"}

\* An entry of a capture of url, with a response body or none
UrlEntry(id, ts, url, res) ==
    [id |-> id, timestamp |-> ts, url |-> url,
     requestBodyHash |-> Absent, responseBodyHash |-> res]

RECURSIVE LogsOf(_)
\* The logs of n entries, the i-th with id i
LogsOf(n) ==
    IF n = 0 THEN {<<>>}
    ELSE {Append(l, UrlEntry(n, ts, url, res)) :
            l \in LogsOf(n - 1), ts \in Times, url \in Urls, res \in HashFields}

\* The body files of the entries, and perhaps a file no entry names
BodiesOf(entries, orphan) ==
    [n \in BodyNames |->
        IF n \in ReferencedHashes(entries) \/ (orphan /\ n = BodyName(0, TRUE))
        THEN n[1] ELSE Absent]

InitClear ==
    /\ now = 0
    /\ meta = Absent
    /\ ret = [op |-> "none"]
    /\ cl = Idle
    /\ lock = NoLock
    /\ procs = [p \in Procs |-> IdleProc]
    /\ auto = NoAuto
    /\ \E n \in 0 .. MaxLog : \E entries \in LogsOf(n), orphan \in BOOLEAN :
        /\ requests = File(Lines(entries))
        /\ bodies = BodiesOf(entries, orphan)
        /\ wf = [pc |-> "clear", done |-> FALSE, entries |-> entries,
                 bodies |-> bodies, before |-> Absent, origin |-> NoOrigin]

\* const remaining = entries.filter(entry => { ... })
RemainingWith(entries, before, origin) ==
    LET Stays(e) ==
            IF before # Absent /\ before # 0 /\ e.timestamp >= before THEN TRUE
            ELSE IF origin # NoOrigin /\ getOriginFromUrl(e.url) # origin THEN TRUE
            ELSE FALSE
    IN  SelectSeq(entries, Stays)

\* async function clear(options = {}), options = { before, origin }
ClearWith(before, origin) ==
    LET entries == readEntriesSync(requests, NoFilters).entries
        remaining == RemainingWith(entries, before, origin)
        after == DeleteOrphans(bodies, ReferencedHashes(remaining))
    IN  /\ wf.pc = "clear" /\ ~wf.done
        /\ IF (before = Absent \/ before = 0) /\ origin = NoOrigin
           THEN /\ requests' = NoFile
                /\ bodies' = [n \in BodyNames |-> Absent]
           ELSE IF ~requests.exists
           THEN UNCHANGED <<requests, bodies>>
           ELSE /\ bodies' = after
                /\ requests' = IF Len(entries) - Len(remaining) > 0
                               THEN File(Lines(remaining)) ELSE requests
        /\ ret' = [op |-> "clear"]
        /\ wf' = [wf EXCEPT !.done = TRUE, !.before = before, !.origin = origin]
        /\ UNCHANGED <<now, meta, cl, lock, procs, auto>>

NextClear ==
    \E before \in Befores, origin \in Origins : ClearWith(before, origin)

SpecClear == InitClear /\ [][NextClear]_vars

\* The entry meets every criterion given
MatchesAll(e, before, origin) ==
    /\ before # Absent => e.timestamp < before
    /\ origin # NoOrigin => getOriginFromUrl(e.url) = origin

\* The entries clear is to leave, in their order
LeftBy(entries, before, origin) ==
    LET Stays(e) == ~MatchesAll(e, before, origin)
    IN  SelectSeq(entries, Stays)

\* C31: clear({before, origin}) removes exactly the entries that meet every
\* criterion given and leaves the others as they were, in their order and
\* with their body files; clear() without criteria removes every entry and
\* every body file.
C31_ClearRemovesExactlyMatching ==
    (wf.pc = "clear" /\ wf.done) =>
        IF wf.before = Absent /\ wf.origin = NoOrigin
        THEN LogEntries = <<>> /\ Files(bodies) = {}
        ELSE /\ LogEntries = LeftBy(wf.entries, wf.before, wf.origin)
             /\ ReferencedHashes(LogEntries) \subseteq Files(bodies)
             /\ \A n \in ReferencedHashes(LogEntries) : bodies[n] = wf.bodies[n]

----------------------------------------------------------------------------
(* The status executeDoSteps returns under onError = 'continue' *)

\* C32: under onError = 'continue' executeDoSteps goes through the whole
\* list and returns 'partial' when a leaf step failed, at top level or
\* inside a loop, and 'completed' only when no leaf step failed.
C32_PartialWheneverALeafFailed ==
    (wf.pc = "done" /\ wf.onError = "continue") =>
        /\ Top(wf.stack).j > Len(wf.steps)
        /\ wf.out.status \in {"partial", "completed"}
        /\ wf.failedLeaf => wf.out.status = "partial"

----------------------------------------------------------------------------
(* The variables after a failing step *)

\* The step in flight fails: an error reply, or a request that cannot be
\* sent or is not answered
StepFailsNow ==
    wf.pc = "sent" /\ wf'.pc # "sent" /\ wf'.reply.kind # "ok"

\* C33: a failing leaf step leaves the variable map as it was: in every
\* scope that is still there after the step each variable, the one named
\* by `as` included, has the value it had before (after a failing until
\* step the loop starts its next iteration with its own variables, so the
\* scopes around the loop are looked at).
C33_FailedStepKeepsVariables ==
    [][(wf.pc = "sent" /\ wf.by # "wait" /\ StepFailsNow) =>
        /\ wf'.captured = wf.captured
        /\ \A k \in 1 .. Len(wf'.stack) :
                (k < Len(wf.stack) \/ ~wf.isUntil) =>
                    wf'.stack[k].vmap = wf.stack[k].vmap]_vars

\* C33 witness: the second step, which captures as x, got an error reply
\* and x still has the value the first step captured.
C33_Witness ==
    /\ wf.pc = "run" /\ wf.onError = "continue" /\ ~wf.autoWait
    /\ Len(wf.steps) = 3 /\ wf.steps[2].as = "x" /\ wf.steps[1].as = "x"
    /\ Len(wf.sent) = 2 /\ wf.reply.kind = "error"
    /\ Len(wf.stack) = 1 /\ Top(wf.stack).j = 3
    /\ Top(wf.stack).vmap["x"] = Str("b c")

----------------------------------------------------------------------------
(* One request at a time *)

\* A step has sent its request and its result is not with its caller yet
InFlight(w) ==
    w.cur # NoStep

\* C34: the engine has at most one request outstanding: a request is sent
\* only when no step is in flight, or, for an auto-wait, in the step that
\* settles the request of the step it belongs to, and only one at a time;
\* the top-level steps are gone through in list order, one after the other,
\* the request of a top-level step being that of the step whose turn it is.
C34_OneRequestAtATime ==
    /\ [][Len(wf'.sent) > Len(wf.sent) =>
            /\ Len(wf'.sent) = Len(wf.sent) + 1
            /\ IF wf'.by = "wait"
               THEN wf.pc = "sent" /\ wf'.reply.kind = "ok" /\ wf'.pc = "wait"
               ELSE ~InFlight(wf) /\ wf.pc = "run" /\ wf'.pc = "sent"]_vars
    /\ [][wf.pc \in {"run", "sent", "wait"} =>
            /\ wf'.stack[1].j \in {wf.stack[1].j, wf.stack[1].j + 1}
            /\ (Len(wf.stack) = 1 /\ Len(wf'.sent) > Len(wf.sent)) =>
                    wf'.cur = wf.steps[wf.stack[1].j]]_vars

\* C34 witness: a click, its auto-wait and the until check of the loop have
\* been sent one after the other, the until check being outstanding.
C34_Witness ==
    /\ wf.pc = "sent" /\ wf.autoWait /\ wf.by = "until"
    /\ Tools(wf) = <<"click", "wait.dom", "js">>

----------------------------------------------------------------------------
(* Termination of executeDoSteps *)

\* Every request issued settles, and the engine goes on when it can
FairWorkflow == SpecWorkflow /\ WF_vars(NextWorkflow)

RECURSIVE StepBound(_), ListBound(_)
\* The requests a step can send at most: its own and its auto-wait for a
\* leaf; for a loop those of its nested steps and of its until step, once
\* per iteration, with at most MAX_LOOP_ITERATIONS iterations
StepBound(step) ==
    IF ~IsLoop(step) THEN IF getAutoWaitCommand(step.cmd) = "" THEN 1 ELSE 2
    ELSE MAX_LOOP_ITERATIONS * (ListBound(step.steps) + ListBound(step.until))

ListBound(steps) ==
    IF steps = <<>> THEN 0
    ELSE StepBound(Head(steps)) + ListBound(Tail(steps))

\* C35: executeDoSteps returns for every finite list of steps, loops in
\* loops, repeat counts above the cap or not numeric and until steps that
\* never give a truthy value included, when every request settles; and the
\* requests it sends are no more than the cap of 100 iterations per loop
\* allows.
C35_Terminates ==
    /\ <>(wf.pc = "done")
    /\ [](Len(wf.sent) <= ListBound(wf.steps))

\* C35 witness: a repeat loop asked for 200 iterations has returned after
\* the 100 requests of its 100 iterations.
C35_Witness ==
    /\ wf.pc = "done" /\ ~wf.autoWait
    /\ Len(wf.steps) = 1 /\ wf.steps[1].kind = "repeat"
    /\ wf.steps[1].count = Val(Num(2 * MAX_LOOP_ITERATIONS))
    /\ Len(wf.sent) = MAX_LOOP_ITERATIONS

----------------------------------------------------------------------------
(* The Perplexity query and the tab it creates *)

\* The awaited calls of the try block, in order
QuerySteps ==
    <<"waitForPageLoad", "checkLoginStatus", "waitForPromptReady", "selectMode",
      "selectModel", "typePrompt", "submitPrompt", "waitForResponse">>

\* What createTab can give as tabId (0: none)
CreatedTabs == {0, 7, 8}

\* if (mode && mode.toLowerCase() !== 'search'), if (model): the step is
\* part of this query
Runs(step, mode, model) ==
    /\ step = "selectMode" => mode \notin {"", "search"}
    /\ step = "selectModel" => model # ""

RECURSIVE StepFrom(_, _, _)
\* The first step from the i-th on that this query runs
StepFrom(i, mode, model) ==
    IF i > Len(QuerySteps) THEN "return"
    ELSE IF Runs(QuerySteps[i], mode, model) THEN QuerySteps[i]
    ELSE StepFrom(i + 1, mode, model)

IndexOf(step) ==
    CHOOSE i \in 1 .. Len(QuerySteps) : QuerySteps[i] = step

\* try { selectMode / selectModel } catch (e) { log(...) }
Caught(step) ==
    step \in {"selectMode", "selectModel"}

InitQuery ==
    /\ now = 0
    /\ requests = NoFile
    /\ bodies = [n \in BodyNames |-> Absent]
    /\ meta = Absent
    /\ ret = [op |-> "none"]
    /\ cl = Idle
    /\ lock = NoLock
    /\ procs = [p \in Procs |-> IdleProc]
    /\ auto = NoAuto
    /\ \E mode \in {"", "search", "research"}, model \in {"", "sonar"} :
        wf = [pc |-> "query", mode |-> mode, model |-> model, at |-> "createTab",
              tabId |-> 0, result |-> "none", closed |-> <<>>, closeFailed |-> FALSE,
              outcome |-> "none"]

\* A rejected closeTab rejects the query
OutcomeOrCloseError(result, closeOk) ==
    IF closeOk THEN result ELSE "threw"

\* finally { await closeTab(tabId).catch(() => {}); }: the query settles as
\* the try block ended
Outcome(result, closeOk) ==
    result

\* const tabInfo = await createTab(); if (!tabId) throw ...
CreateTabReturns(tabId) ==
    /\ wf.pc = "query" /\ wf.at = "createTab"
    /\ wf' = IF tabId = 0
             THEN [wf EXCEPT !.at = "settled", !.outcome = "threw"]
             ELSE [wf EXCEPT !.tabId = tabId, !.at = StepFrom(1, wf.mode, wf.model)]
    /\ UNCHANGED <<now, requests, bodies, meta, ret, cl, lock, procs, auto>>

\* createTab rejects: query rejects with its error before there is a tab
CreateTabThrows ==
    /\ wf.pc = "query" /\ wf.at = "createTab"
    /\ wf' = [wf EXCEPT !.at = "settled", !.result = "threw", !.outcome = "threw"]
    /\ UNCHANGED <<now, requests, bodies, meta, ret, cl, lock, procs, auto>>

\* An awaited call of the try block returns (waitForResponse: see below)
QueryStepReturns ==
    /\ wf.pc = "query"
    /\ wf.at \in {QuerySteps[i] : i \in 1 .. Len(QuerySteps)} \ {"waitForResponse"}
    /\ wf' = [wf EXCEPT !.at = StepFrom(IndexOf(wf.at) + 1, wf.mode, wf.model)]
    /\ UNCHANGED <<now, requests, bodies, meta, ret, cl, lock, procs, auto>>

\* An awaited call of the try block throws
QueryStepThrows ==
    /\ wf.pc = "query"
    /\ wf.at \in {QuerySteps[i] : i \in 1 .. Len(QuerySteps)}
    /\ wf' = IF Caught(wf.at)
             THEN [wf EXCEPT !.at = StepFrom(IndexOf(wf.at) + 1, wf.mode, wf.model)]
             ELSE [wf EXCEPT !.at = "finally", !.result = "threw"]
    /\ UNCHANGED <<now, requests, bodies, meta, ret, cl, lock, procs, auto>>

\* waitForResponse returns the response, returns what it has at the
\* deadline (partial: true), or throws "Response timeout"
ResponseEnds(how) ==
    /\ wf.pc = "query" /\ wf.at = "waitForResponse"
    /\ wf' = [wf EXCEPT !.at = "finally",
                        !.result = IF how = "timeout" THEN "threw" ELSE how]
    /\ UNCHANGED <<now, requests, bodies, meta, ret, cl, lock, procs, auto>>

\* The finally block: closeTab(tabId) resolves or rejects, query settles
CloseTab(closeOk) ==
    /\ wf.pc = "query" /\ wf.at = "finally"
    /\ wf' = [wf EXCEPT !.at = "settled",
                        !.closed = Append(@, wf.tabId),
                        !.closeFailed = ~closeOk,
                        !.outcome = Outcome(wf.result, closeOk)]
    /\ UNCHANGED <<now, requests, bodies, meta, ret, cl, lock, procs, auto>>

NextQuery ==
    \/ \E tabId \in CreatedTabs : CreateTabReturns(tabId)
    \/ CreateTabThrows
    \/ QueryStepReturns
    \/ QueryStepThrows
    \/ \E how \in {"full", "partial", "timeout"} : ResponseEnds(how)
    \/ \E closeOk \in BOOLEAN : CloseTab(closeOk)

SpecQuery == InitQuery /\ [][NextQuery]_vars

\* C36: once createTab has given a tabId, closeTab(tabId) is called exactly
\* once before query settles (and not before the try block has ended),
\* whether the response is full, partial or a step threw, and a failing
\* closeTab leaves the outcome as the try block made it; without a tab
\* closeTab is not called.
C36_TabClosedExactlyOnce ==
    wf.pc = "query" =>
        /\ wf.at = "settled" =>
                /\ wf.closed = IF wf.tabId # 0 THEN <<wf.tabId>> ELSE <<>>
                /\ wf.tabId # 0 => (wf.outcome = wf.result /\ wf.result # "none")
        /\ wf.at # "settled" => (wf.closed = <<>> /\ wf.outcome = "none")

\* C36 witness: the response timed out with a partial text, closeTab was
\* called once and failed, and query returned the partial response.
C36_Witness ==
    /\ wf.pc = "query" /\ wf.at = "settled"
    /\ wf.tabId = 7 /\ wf.closed = <<7>> /\ wf.closeFailed
    /\ wf.outcome = "partial"

\* ---------------------------------------------------------------------
\* Native-host installer and uninstaller (scripts/install-native-host.cjs,
\* scripts/uninstall-native-host.cjs)
\* ---------------------------------------------------------------------

HOST_NAME == "surf.browser.host"

\* a browser the platform does not have (null in the tables)
NoDir == ""

Platforms == {"darwin", "linux", "win32"}

\* BROWSERS of install-native-host.cjs
BROWSERS_install ==
    [chrome   |-> [darwin |-> "Library/Application Support/Google/Chrome/NativeMessagingHosts",
                   linux  |-> ".config/google-chrome/NativeMessagingHosts",
                   win32  |-> "Google\\Chrome"],
     chromium |-> [darwin |-> "Library/Application Support/Chromium/NativeMessagingHosts",
                   linux  |-> ".config/chromium/NativeMessagingHosts",
                   win32  |-> "Chromium"],
     brave    |-> [darwin |-> "Library/Application Support/BraveSoftware/Brave-Browser/NativeMessagingHosts",
                   linux  |-> ".config/BraveSoftware/Brave-Browser/NativeMessagingHosts",
                   win32  |-> "BraveSoftware\\Brave-Browser"],
     edge     |-> [darwin |-> "Library/Application Support/Microsoft Edge/NativeMessagingHosts",
                   linux  |-> ".config/microsoft-edge/NativeMessagingHosts",
                   win32  |-> "Microsoft\\Edge"],
     arc      |-> [darwin |-> "Library/Application Support/Arc/User Data/NativeMessagingHosts",
                   linux  |-> NoDir,
                   win32  |-> NoDir],
     helium   |-> [darwin |-> "Library/Application Support/net.imput.helium/NativeMessagingHosts",
                   linux  |-> NoDir,
                   win32  |-> NoDir]]

\* BROWSERS of uninstall-native-host.cjs
BROWSERS_uninstall ==
    [chrome   |-> [darwin |-> "Library/Application Support/Google/Chrome/NativeMessagingHosts",
                   linux  |-> ".config/google-chrome/NativeMessagingHosts",
                   win32  |-> "Google\\Chrome"],
     chromium |-> [darwin |-> "Library/Application Support/Chromium/NativeMessagingHosts",
                   linux  |-> ".config/chromium/NativeMessagingHosts",
                   win32  |-> "Chromium"],
     brave    |-> [darwin |-> "Library/Application Support/BraveSoftware/Brave-Browser/NativeMessagingHosts",
                   linux  |-> ".config/BraveSoftware/Brave-Browser/NativeMessagingHosts",
                   win32  |-> "BraveSoftware\\Brave-Browser"],
     edge     |-> [darwin |-> "Library/Application Support/Microsoft Edge/NativeMessagingHosts",
                   linux  |-> ".config/microsoft-edge/NativeMessagingHosts",
                   win32  |-> "Microsoft\\Edge"],
     arc      |-> [darwin |-> "Library/Application Support/Arc/User Data/NativeMessagingHosts",
                   linux  |-> NoDir,
                   win32  |-> NoDir]]

\* the values --browser takes in the installer's help
BrowserArgs == DOMAIN BROWSERS_install \cup {"all"}

\* parseArgs: --browser all is every key of the script's own table, any
\* other value is taken as the one browser named
browsersOf(arg, table) ==
    IF arg = "all" THEN DOMAIN table ELSE {arg}

getWrapperDir(platform) ==
    CASE platform = "darwin" -> "Library/Application Support/surf-cli"
      [] platform = "linux"  -> ".local/share/surf-cli"
      [] platform = "win32"  -> "AppData/Local/surf-cli"

\* path.join(dir, name): a file is its directory and its name
FileIn(dir, name) == <<dir, name>>

ManifestName == HOST_NAME \o ".json"

\* createWrapper: the wrapper script in the wrapper directory
WrapperFile(platform) ==
    FileIn(getWrapperDir(platform),
           IF platform = "win32" THEN "host-wrapper.bat" ELSE "host-wrapper.sh")

RegKey(dir) == <<"HKCU\\Software", dir, "NativeMessagingHosts", HOST_NAME>>

\* main's loop test and installManifest's first test: the browser is in the
\* table and the platform has it
Known(table, browser, platform) ==
    /\ browser \in DOMAIN table
    /\ table[browser][platform] # NoDir

\* installManifest: the manifest file it writes for one browser (on win32
\* installWindowsRegistry writes it into the wrapper directory)
InstalledFiles(browser, platform) ==
    IF ~Known(BROWSERS_install, browser, platform) THEN {}
    ELSE IF platform = "win32"
         THEN {FileIn(getWrapperDir(platform), ManifestName)}
         ELSE {FileIn(BROWSERS_install[browser][platform], ManifestName)}

\* installWindowsRegistry: the key that reg add sets when it succeeds
InstalledKeys(browser, platform, regOk) ==
    IF Known(BROWSERS_install, browser, platform) /\ platform = "win32" /\ regOk
    THEN {RegKey(BROWSERS_install[browser][platform])}
    ELSE {}

\* what the installer's result names as installed for one browser: the
\* manifest file, or on win32 the registry key that points to it
Installed(browser, platform, regOk) ==
    IF platform = "win32" THEN InstalledKeys(browser, platform, regOk)
    ELSE InstalledFiles(browser, platform)

\* removeManifest: the file it unlinks for one browser (none on win32)
RemovedFiles(browser, platform) ==
    IF ~Known(BROWSERS_uninstall, browser, platform) \/ platform = "win32" THEN {}
    ELSE {FileIn(BROWSERS_uninstall[browser][platform], ManifestName)}

\* removeWindowsRegistry: the key reg delete removes
RemovedKeys(browser, platform) ==
    IF Known(BROWSERS_uninstall, browser, platform) /\ platform = "win32"
    THEN {RegKey(BROWSERS_uninstall[browser][platform])}
    ELSE {}

\* removeWrapperDir: fs.rmSync(wrapperDir, { recursive: true, force: true })
removeWrapperDir(files, platform) ==
    {f \in files : f[1] # getWrapperDir(platform)}

InitHosts ==
    /\ now = 0
    /\ requests = NoFile
    /\ bodies = [n \in BodyNames |-> Absent]
    /\ meta = Absent
    /\ ret = [op |-> "none"]
    /\ cl = Idle
    /\ lock = NoLock
    /\ procs = [p \in Procs |-> IdleProc]
    /\ auto = NoAuto
    /\ \E platform \in Platforms :
        wf = [pc |-> "hosts", platform |-> platform, files |-> {}, keys |-> {},
              arg |-> "", wrote |-> {}, last |-> "none"]

\* install-native-host.cjs <extension-id> --browser arg, with a valid
\* extension id, node and host.cjs found: the wrapper, then a manifest for
\* each browser of the list
Install(arg, regOk) ==
    /\ wf.pc = "hosts"
    /\ LET browsers == browsersOf(arg, BROWSERS_install)
           p == wf.platform
       IN wf' = [wf EXCEPT
                   !.files = wf.files \cup {WrapperFile(p)}
                                \cup UNION {InstalledFiles(b, p) : b \in browsers},
                   !.keys = wf.keys \cup UNION {InstalledKeys(b, p, regOk) : b \in browsers},
                   !.arg = arg,
                   !.wrote = UNION {Installed(b, p, regOk) : b \in browsers},
                   !.last = "installed"]
    /\ UNCHANGED <<now, requests, bodies, meta, ret, cl, lock, procs, auto>>

\* uninstall-native-host.cjs --browser arg, or --all: removeManifest for
\* each browser of the list, and with all the wrapper directory
Uninstall(arg, all) ==
    /\ wf.pc = "hosts"
    /\ LET browsers == browsersOf(IF all THEN "all" ELSE arg, BROWSERS_uninstall)
           p == wf.platform
           left == wf.files \ UNION {RemovedFiles(b, p) : b \in browsers}
       IN wf' = [wf EXCEPT
                   !.files = IF all \/ arg = "all" THEN removeWrapperDir(left, p) ELSE left,
                   !.keys = wf.keys \ UNION {RemovedKeys(b, p) : b \in browsers},
                   !.last = IF wf.last = "installed" /\ (all \/ arg = wf.arg)
                            THEN "undone" ELSE "other"]
    /\ UNCHANGED <<now, requests, bodies, meta, ret, cl, lock, procs, auto>>

NextHosts ==
    \/ \E arg \in BrowserArgs, regOk \in BOOLEAN : Install(arg, regOk)
    \/ \E arg \in BrowserArgs, all \in BOOLEAN : Uninstall(arg, all)

SpecHosts == InitHosts /\ [][NextHosts]_vars

\* C37: after the installer has run with a --browser value and the
\* uninstaller has then run with the same value, or with --all, nothing the
\* installer installed for that value is left: no manifest file in a
\* browser's directory and, on win32, no registry key of a manifest.
C37_UninstallUndoesInstall ==
    (wf.pc = "hosts" /\ wf.last = "undone") =>
        wf.wrote \cap (wf.files \cup wf.keys) = {}
====
